---------------------------- MODULE Spec2Model ----------------------------
(***************************************************************************)
(* A model of the dyng library (Bleskocvok/dyng): the static graph         *)
(* container (graph.h), the dynamic graph assembler (dynamic_graph.h), the *)
(* generational barrier and the thread pool (parallel.h) and the           *)
(* sequential and parallel tolerance passes (foresighted_layout.h,         *)
(* foresighted_parallel.h).                                                *)
(*                                                                         *)
(* The module holds several specifications over one set of variables; a    *)
(* specification leaves the variables of the other components at their     *)
(* initial value.                                                          *)
(*   SpecGraph     : operations on one graph container                     *)
(*   Spec          : the dynamic graph (modification log, build,           *)
(*                   keyframes)                                            *)
(*   SpecBarrier   : threads meeting repeatedly at one barrier             *)
(*   SpecPool      : the thread pool (perform, workers, quit)              *)
(*   SpecPoolFair  : the thread pool under fair scheduling of its threads  *)
(*   SpecPoolFailure : the thread pool with jobs that may throw            *)
(*   SpecTolerance : the sequential and the parallel tolerance pass on the *)
(*                   same keyframes                                        *)
(*   SpecToleranceFair : the same under fair scheduling of the threads     *)
(*   SpecLayout    : the base layout (supergraph, GAP, RGAP, positions     *)
(*                   copied back to the keyframes)                         *)
(*   SpecCanvas    : the position of one node from the initial placement   *)
(*                   to the canvas, in floating point arithmetic           *)
(*   SpecPhases    : set_phases on an interpolator                         *)
(*   SpecInterp    : an interpolator is constructed and asked for a frame  *)
(*                   of a dynamic graph                                    *)
(*   SpecGrid      : the pairs of nodes the local repulsion enumerates     *)
(*                   through the optimization grid                         *)
(***************************************************************************)
EXTENDS Integers, Sequences, FiniteSets, TLC

(***************************************************************************)
(* Bounds of the model.                                                    *)
(***************************************************************************)
\* SpecGraph: node ids are 0 .. MaxGraphNodes-1, edge ids 0 .. MaxGraphEdges-1
MaxGraphNodes == 3
MaxGraphEdges == 2
\* Spec: add_node is called at most MaxNodes times, add_edge at most MaxEdges times
MaxNodes == 2
MaxEdges == 1
\* Spec: times passed to add_* / remove_* are 0 .. MaxTime
MaxTime == 2
\* Spec: number of add_* / remove_* calls on one dynamic_graph object
MaxMods == 4

GraphNodeIds == 0 .. (MaxGraphNodes - 1)
GraphEdgeIds == 0 .. (MaxGraphEdges - 1)
NodeIds == 0 .. (MaxNodes - 1)
EdgeIds == 0 .. (MaxEdges - 1)
Times == 0 .. MaxTime

\* SpecBarrier: the barrier has size BarrierSize and every thread calls wait()
\* at most MaxWaits times
BarrierSize == 3
MaxWaits == 3
BarrierThreads == 0 .. (BarrierSize - 1)

\* SpecPool: the pool has PoolSize threads (the owner and PoolSize-1 workers)
\* and perform() is called at most MaxPerforms times
PoolSize == 3
MaxPerforms == 2
PoolSlots == 0 .. (PoolSize - 1)
PoolWorkers == 1 .. (PoolSize - 1)

\* SpecTolerance: the animation has 1 .. MaxKeyframes keyframes; a layout is
\* the coordinate of one node on a canvas [-Half, Half]; the cooling has
\* 1 .. MaxIterations rounds and starts at StartTemperature; the tolerance
\* is 1 .. MaxTolerance; the parallel pass has 1 .. MaxThreads threads
MaxKeyframes == 3
Half == 2
MaxIterations == 2
StartTemperature == 2
MaxTolerance == 3
MaxThreads == 2
\* where the forces of a keyframe's graph push the node: beyond a border
Equilibria == { -(Half + 1), Half + 1 }
\* where the basic layout may have put the node
BasePositions == {0, 1}

\* SpecLayout: the animation has MaxLayoutStates keyframes over three node
\* ids and three edge ids
MaxLayoutStates == 2
LayoutTimes == 0 .. (MaxLayoutStates - 1)
LayoutNodeIds == {0, 1, 2}
LayoutEdgeIds == {0, 1, 2}

\* SpecCanvas: a float has MantissaBits significant bits and is a multiple
\* of 2^-FracBits; the canvas is 1 .. 2^MantissaBits - 1 wide and high and
\* centred at a point of Centres \X Centres; the static layout and the
\* tolerance pass make at most MaxCanvasIterations iterations
MantissaBits == 3
FracBits == 8
MaxCanvasIterations == 2
CanvasSizes == 1 .. (2 ^ MantissaBits - 1)
Centres == {0, 1}

\* SpecPhases: set_phases is given a sequence of at most MaxPhases phases
MaxPhases == 4
\* SpecInterp: the interpolator is constructed from at most MaxSchedule
\* phases; the dynamic graph has InterpStateCounts keyframes over the
\* node ids InterpNodeIds and one edge; size_t has SizeBits bits
MaxSchedule == 3
InterpStateCounts == {0, 1, 2, 3}
SizeBits == 16
\* the optimization grid: nodes of the graph, canvas sizes and cell sizes 2k
MaxGridNodes == 2
GridWidths == {4, 6}
GridHeights == {2, 4}
TwoKs == {2, 3}
InterpNodeIds == {0, 1}
\* the alphas node::alpha(value) sets, in 144ths: 0.5 and 1
InterpAlphas == {72, 144}

(***************************************************************************)
(* The state.  Each component has its variables; the tuple xOthers names   *)
(* the variables of every component but x.                                 *)
(***************************************************************************)
\* graph.h: one graph object (SpecGraph)
VARIABLES
    m_graph,     \* the graph object
    g_thrown,    \* what the last operation threw: "none", "invalid_graph"
    g_last,      \* the name of the last operation
    g_failed     \* some operation so far has thrown

graphVars == << m_graph, g_thrown, g_last, g_failed >>

\* dynamic_graph.h: one dynamic_graph object (Spec)
VARIABLES
    m_last_node_id,
    m_last_edge_id,
    m_states,          \* std::vector<graph_state>
    m_modifications,   \* per time step, the operations queued for it
    d_last,            \* the last call on the object: "none", "queue" (add_* and
                       \* remove_*), "build", "build_states", "clear"
    d_thrown,          \* what the last call threw
    d_log,             \* the log the last call was given, when it was build()
    d_calls,           \* number of add_* / remove_* calls so far
    d_again            \* the last two calls were both build()

dynVars == << m_last_node_id, m_last_edge_id, m_states, m_modifications,
              d_last, d_thrown, d_log, d_calls, d_again >>

\* parallel.h: one detail::barrier used by BarrierSize threads (SpecBarrier)
VARIABLES
    bar,          \* the barrier object: m_size, m_current, m_gen
    b_pc,         \* per thread: "out" (not in wait()), "waiting" (blocked in
                  \* m_cv.wait), "awake" (woken, about to test the predicate)
    b_gen,        \* per thread: the local gen of its wait()
    b_entered,    \* per thread: number of wait() calls entered
    b_returned    \* per thread: number of wait() calls returned from

barrierVars == << bar, b_pc, b_gen, b_entered, b_returned >>

\* parallel.h: one detail::parallel pool (SpecPool)
VARIABLES
    m_params,     \* per slot: func (a job is assigned), run
    m_end,
    m_bar,        \* the pool's barrier
    p_main,       \* position of the thread that owns the pool
    p_worker,     \* per worker: its position in thread_func
    p_gen,        \* per thread: the local gen of its m_bar.wait()
    p_calls,      \* number of perform() calls so far
    p_expected,   \* per slot: perform() calls made with a job assigned
    p_started,    \* per slot: number of times the job was started
    p_finished    \* per slot: number of times the job has returned

poolVars == << m_params, m_end, m_bar, p_main, p_worker, p_gen,
               p_calls, p_expected, p_started, p_finished >>

\* foresighted_layout.h, foresighted_parallel.h: the sequential and the
\* parallel tolerance pass on the same input (SpecTolerance)
VARIABLES
    t_phase,      \* "none", "seq" (sequential pass running), "par" (parallel
                  \* pass running), "done"
    t_in,         \* the input: equilibria eq, tolerance_value, iterations,
                  \* threads, and the keyframes states after basic_layout
    seq_states,   \* sequential pass: states
    seq_temp,     \* sequential pass: temp
    seq_i,        \* sequential pass: i
    seq_s,        \* sequential pass: s
    seq_accept,   \* sequential pass: per round, the keyframes that accepted
    par_states,   \* parallel pass: states
    par_copies,   \* parallel pass: copies
    par_apply,    \* parallel pass: apply
    par_temp,     \* parallel pass: temp
    par_bar,      \* parallel pass: bar
    par_pc,       \* parallel pass: per thread, its position in the job
    par_r,        \* parallel pass: per thread, r
    par_gen,      \* parallel pass: per thread, the local gen of bar.wait()
    par_accept,   \* parallel pass: per round, the keyframes that accepted
    par_m_bar     \* parallel pass: m_bar of the thread pool

tolVars == << t_phase, t_in, seq_states, seq_temp, seq_i, seq_s, seq_accept,
              par_states, par_copies, par_apply, par_temp, par_bar, par_pc,
              par_r, par_gen, par_accept, par_m_bar >>
seqVars == << seq_states, seq_temp, seq_i, seq_s, seq_accept >>
parVars == << par_states, par_copies, par_apply, par_temp, par_bar, par_pc,
              par_r, par_gen, par_accept, par_m_bar >>

\* the variables of the other components
VARIABLES
    l_pc,          \* "start", "states" (the keyframes are built), "done",
                   \* "refined" (the tolerance pass has compared them)
    l_states,      \* std::vector<graph_state>: the keyframes that are laid out
    l_nodes_live,  \* node_live_sets of basic_layout
    l_edges_live,  \* edge_live_sets of basic_layout
    l_super,       \* the supergraph of basic_layout
    l_gap,         \* the mapped_graph returned by calculate_gap
    l_rgap,        \* the mapped_graph rgap, after m_static_layout
    l_thrown,      \* the exception that left basic_layout, "none" if none
    l_divisors     \* the shared node counts of the calls of distance()

layoutVars == << l_pc, l_states, l_nodes_live, l_edges_live, l_super, l_gap,
                 l_rgap, l_thrown, l_divisors >>

VARIABLES
    c_pc,      \* "start", "static", "tolerance", "done"
    c_canvas,  \* m_canvas_width, m_canvas_height, m_center
    c_calc,    \* calculation_w and calculation_h of operator()
    c_pos,     \* pos() of the node
    c_iter     \* the iterations made

canvasVars == << c_pc, c_canvas, c_calc, c_pos, c_iter >>

VARIABLES
    i_pc,      \* "new", "set", "ready", "built", "framed"
    m_phases,  \* interpolator::m_phases
    i_arg,     \* the argument of the last set_phases
    i_thrown,  \* the exception of the last call, "none" if it returned
    i_states,  \* dgraph.states()
    i_time,    \* the argument time of operator()
    i_frame    \* the graph_state returned by operator()

interpVars ==
    << i_pc, m_phases, i_arg, i_thrown, i_states, i_time, i_frame >>

VARIABLES
    o_pc,      \* "new", "adding", "pairing", "done", "crashed"
    m_grid,    \* the optimization_grid of for_each_pair_of_nodes
    o_n,       \* graph.nodes().size()
    o_i,       \* the loop variable i
    o_pos,     \* the positions of the nodes added so far
    o_cells,   \* the cell add computed for each of them
    o_pairs    \* the calls func(i, j), in order

gridVars == << o_pc, m_grid, o_n, o_i, o_pos, o_cells, o_pairs >>

graphOthers ==
    << dynVars, barrierVars, poolVars, tolVars, layoutVars, canvasVars,
       interpVars,
       gridVars >>
dynOthers ==
    << graphVars, barrierVars, poolVars, tolVars, layoutVars, canvasVars,
       interpVars,
       gridVars >>
barrierOthers ==
    << graphVars, dynVars, poolVars, tolVars, layoutVars, canvasVars,
       interpVars,
       gridVars >>
poolOthers ==
    << graphVars, dynVars, barrierVars, tolVars, layoutVars, canvasVars,
       interpVars,
       gridVars >>
tolOthers ==
    << graphVars, dynVars, barrierVars, poolVars, layoutVars, canvasVars,
       interpVars,
       gridVars >>
layoutOthers ==
    << graphVars, dynVars, barrierVars, poolVars, tolVars, canvasVars,
       interpVars,
       gridVars >>
canvasOthers ==
    << graphVars, dynVars, barrierVars, poolVars, tolVars, layoutVars,
       interpVars,
       gridVars >>
interpOthers ==
    << graphVars, dynVars, barrierVars, poolVars, tolVars, layoutVars,
       canvasVars,
       gridVars >>

gridOthers ==
    << graphVars, dynVars, barrierVars, poolVars, tolVars, layoutVars,
       canvasVars, interpVars >>

vars ==
    << graphVars, dynVars, barrierVars, poolVars, tolVars, layoutVars,
       canvasVars, interpVars, gridVars >>


(***************************************************************************)
(* std::unordered_map as a TLA+ function with a finite domain.             *)
(***************************************************************************)
EmptyMap == [x \in {} |-> 0]

\* unordered_map::emplace: inserts only when the key is absent
MapEmplace(m, k, v) ==
    IF k \in DOMAIN m THEN m
    ELSE [x \in (DOMAIN m) \cup {k} |-> IF x = k THEN v ELSE m[x]]

\* unordered_map::erase(key)
MapErase(m, k) == [x \in (DOMAIN m) \ {k} |-> m[x]]

\* erase of every key of a set
MapEraseAll(m, ks) == [x \in (DOMAIN m) \ ks |-> m[x]]

\* unordered_map::operator[]= : inserts or overwrites
MapSet(m, k, v) == [x \in (DOMAIN m) \cup {k} |-> IF x = k THEN v ELSE m[x]]

(***************************************************************************)
(* node.h, edge.h: a node and an edge of one keyframe.                     *)
(***************************************************************************)
node(id) == [id |-> id, is_new |-> FALSE, is_old |-> FALSE]

edge(id, one, two) ==
    [id |-> id, one |-> one, two |-> two, is_new |-> FALSE, is_old |-> FALSE]

(***************************************************************************)
(* graph.h: class graph.  m_nodes and m_edges are containers (a vector     *)
(* and an id -> index map, indices counted from 0 as in the code), m_index *)
(* is the adjacency index NodeId -> (NodeId -> EdgeId).                    *)
(***************************************************************************)
EmptyGraph ==
    [nodes |-> << >>, nmap |-> EmptyMap,
     edges |-> << >>, emap |-> EmptyMap,
     index |-> EmptyMap]

node_exists(g, id) == id \in DOMAIN g.nmap

edge_exists(g, id) == id \in DOMAIN g.emap

\* the loop of remove_elements_if that re-establishes the map: map[vec[i].id()] = i
RECURSIVE RebuildMapFrom(_, _, _)
RebuildMapFrom(vec, i, m) ==
    IF i > Len(vec) THEN m
    ELSE RebuildMapFrom(vec, i + 1, MapSet(m, vec[i].id, i - 1))

\* mutant: the loop starts at the second element
RebuildMapSkipsFirst(vec) == RebuildMapFrom(vec, 2, EmptyMap)

RebuildMap(vec) == RebuildMapFrom(vec, 1, EmptyMap)

\* std::remove_if + erase: the elements not selected, in their order
RECURSIVE EraseIf(_, _)
EraseIf(vec, ids) ==
    IF vec = << >> THEN << >>
    ELSE IF Head(vec).id \in ids THEN EraseIf(Tail(vec), ids)
         ELSE << Head(vec) >> \o EraseIf(Tail(vec), ids)

\* node ids erased from every adjacency entry by the side effect of remove_edges_if
ErasedKeys(g, ids) ==
    UNION { {g.edges[i].one, g.edges[i].two} :
              i \in {j \in 1 .. Len(g.edges) : g.edges[j].id \in ids} }

\* graph::remove_edges_if, the predicate given as the set of edge ids it selects
remove_edges_if(g, ids) ==
    LET keys  == ErasedKeys(g, ids)
        edges == EraseIf(g.edges, ids)
    IN  [g EXCEPT !.index = [n \in DOMAIN g.index |-> MapEraseAll(g.index[n], keys)],
                  !.edges = edges,
                  !.emap  = RebuildMap(edges)]

\* mutant: only the edges that name the node as their first end
IncidentEdgesOne(g, id) ==
    { g.edges[i].id : i \in {j \in 1 .. Len(g.edges) : g.edges[j].one = id} }

IncidentEdges(g, id) ==
    { g.edges[i].id : i \in {j \in 1 .. Len(g.edges) :
                               g.edges[j].one = id \/ g.edges[j].two = id} }

\* mutant: the edges at the node are not removed
RemoveNodeKeepsEdges(g, id) == [g EXCEPT !.index = MapErase(g.index, id)]

\* the side effect of remove_nodes_if for one selected node
RemoveNodeSideEffect(g, id) ==
    LET g1 == remove_edges_if(g, IncidentEdges(g, id))
    IN  [g1 EXCEPT !.index = MapErase(g1.index, id)]

\* the side effects of remove_nodes_if, node by node in vector order
RECURSIVE NodeSideEffects(_, _, _)
NodeSideEffects(g, vec, ids) ==
    IF vec = << >> THEN g
    ELSE IF Head(vec).id \in ids
         THEN NodeSideEffects(RemoveNodeSideEffect(g, Head(vec).id), Tail(vec), ids)
         ELSE NodeSideEffects(g, Tail(vec), ids)

\* graph::remove_nodes_if, the predicate given as the set of node ids it selects
remove_nodes_if(g, ids) ==
    LET g1    == NodeSideEffects(g, g.nodes, ids)
        nodes == EraseIf(g.nodes, ids)
    IN  [g1 EXCEPT !.nodes = nodes, !.nmap = RebuildMap(nodes)]

\* Operations that may throw return the graph they leave and the exception.
Returned(g) == [g |-> g, thrown |-> "none"]
Thrown(g, what) == [g |-> g, thrown |-> what]

\* graph::remove_edge
remove_edge(g, id) ==
    IF ~edge_exists(g, id) THEN Thrown(g, "invalid_graph")
    ELSE Returned(remove_edges_if(g, {id}))

\* mutant: removing an absent node is not an error
remove_node_unchecked(g, id) == Returned(remove_nodes_if(g, {id}))

\* graph::remove_node
remove_node(g, id) ==
    IF ~node_exists(g, id) THEN Thrown(g, "invalid_graph")
    ELSE Returned(remove_nodes_if(g, {id}))

\* graph::push_node
push_node(g, n) ==
    IF n.id \in DOMAIN g.nmap THEN g
    ELSE [g EXCEPT !.nmap  = MapEmplace(g.nmap, n.id, Len(g.nodes)),
                   !.index = MapEmplace(g.index, n.id, EmptyMap),
                   !.nodes = Append(g.nodes, n)]

\* graph::push_edge: the two emplace calls run in order, the second may throw
\* after the first has modified the adjacency index
push_edge(g, e) ==
    IF e.id \in DOMAIN g.emap THEN Returned(g)
    ELSE IF e.one \notin DOMAIN g.index THEN Thrown(g, "invalid_graph")
    ELSE LET g1 == [g EXCEPT !.index[e.one] = MapEmplace(g.index[e.one], e.two, e.id)]
         IN  IF e.two \notin DOMAIN g1.index THEN Thrown(g1, "invalid_graph")
             ELSE Returned(
                    [g1 EXCEPT !.index[e.two] = MapEmplace(g1.index[e.two], e.one, e.id),
                               !.emap  = MapEmplace(g1.emap, e.id, Len(g1.edges)),
                               !.edges = Append(g1.edges, e)])

\* graph::edge_exists(node_id, node_id): std::out_of_range when a node is absent
edge_exists_between(g, one, two) ==
    IF ~node_exists(g, one) \/ ~node_exists(g, two) \/ one \notin DOMAIN g.index
    THEN "out_of_range"
    ELSE two \in DOMAIN g.index[one]

NodeIdsOf(g) == { g.nodes[i].id : i \in 1 .. Len(g.nodes) }
EdgeIdsOf(g) == { g.edges[i].id : i \in 1 .. Len(g.edges) }

(***************************************************************************)
(* SpecGraph: one graph container and the operations of its interface.     *)
(***************************************************************************)
GraphInit ==
    /\ m_graph = EmptyGraph
    /\ g_thrown = "none"
    /\ g_last = "none"
    /\ g_failed = FALSE

\* some edge of g connects a and b
Connected(g, a, b) ==
    \E i \in 1 .. Len(g.edges) :
        \/ g.edges[i].one = a /\ g.edges[i].two = b
        \/ g.edges[i].one = b /\ g.edges[i].two = a

GPushNode ==
    /\ \E id \in GraphNodeIds :
        /\ m_graph' = push_node(m_graph, node(id))
        /\ g_last' = "push_node"
    /\ g_thrown' = "none"
    /\ UNCHANGED g_failed
    /\ UNCHANGED graphOthers

\* The edges offered to push_edge and add_edge: edge id connects the nodes
\* EndsOf(id, n) of n nodes, so that the graphs built have neither self-loops
\* nor multi-edges and two consecutive edge ids share a node.
EndsOf(id, n) == << id % n, (id + 1) % n >>

GPushEdge ==
    /\ \E id \in GraphEdgeIds :
        LET r == push_edge(m_graph, edge(id, EndsOf(id, MaxGraphNodes)[1], EndsOf(id, MaxGraphNodes)[2]))
        IN  /\ m_graph' = r.g
            /\ g_thrown' = r.thrown
            /\ g_last' = "push_edge"
            /\ g_failed' = (g_failed \/ r.thrown # "none")
    /\ UNCHANGED graphOthers

GRemoveNode ==
    /\ \E id \in GraphNodeIds :
        LET r == remove_node(m_graph, id)
        IN  /\ m_graph' = r.g
            /\ g_thrown' = r.thrown
            /\ g_last' = "remove_node"
            /\ g_failed' = (g_failed \/ r.thrown # "none")
    /\ UNCHANGED graphOthers

GRemoveEdge ==
    /\ \E id \in GraphEdgeIds :
        LET r == remove_edge(m_graph, id)
        IN  /\ m_graph' = r.g
            /\ g_thrown' = r.thrown
            /\ g_last' = "remove_edge"
            /\ g_failed' = (g_failed \/ r.thrown # "none")
    /\ UNCHANGED graphOthers

GRemoveNodesIf ==
    /\ \E ids \in SUBSET GraphNodeIds :
        /\ m_graph' = remove_nodes_if(m_graph, ids)
        /\ g_last' = "remove_nodes_if"
    /\ g_thrown' = "none"
    /\ UNCHANGED g_failed
    /\ UNCHANGED graphOthers

GRemoveEdgesIf ==
    /\ \E ids \in SUBSET GraphEdgeIds :
        /\ m_graph' = remove_edges_if(m_graph, ids)
        /\ g_last' = "remove_edges_if"
    /\ g_thrown' = "none"
    /\ UNCHANGED g_failed
    /\ UNCHANGED graphOthers

GraphNext ==
    \/ GPushNode
    \/ GPushEdge
    \/ GRemoveNode
    \/ GRemoveEdge
    \/ GRemoveNodesIf
    \/ GRemoveEdgesIf

(***************************************************************************)
(* Claims about the graph container (SpecGraph).                           *)
(***************************************************************************)
\* the adjacency index, read as graph::edge_exists(a, b) reads it, agrees with
\* the edge sequence and is symmetric
AdjacencyAgrees(g) ==
    \A a \in NodeIdsOf(g), b \in NodeIdsOf(g) :
        /\ edge_exists_between(g, a, b) = edge_exists_between(g, b, a)
        /\ edge_exists_between(g, a, b) = Connected(g, a, b)

\* C5: after any sequence of push_node, push_edge, remove_node and remove_edge
\* (none of which has thrown) on a graph without self-loops or multi-edges,
\* edge_exists(a, b) = edge_exists(b, a) for all present nodes a and b, and both
\* are true iff some edge of edges() connects a and b.
C5_AdjacencySymmetric == ~g_failed => AdjacencyAgrees(m_graph)

\* the id -> index map of a container agrees with its vector
MapAgrees(vec, map) ==
    /\ DOMAIN map = { vec[i].id : i \in 1 .. Len(vec) }
    /\ \A i \in 1 .. Len(vec), j \in 1 .. Len(vec) : vec[i].id = vec[j].id => i = j
    /\ \A id \in DOMAIN map :
        /\ map[id] \in 0 .. (Len(vec) - 1)
        /\ vec[map[id] + 1].id = id

\* C6: after any sequence of push_node, push_edge, remove_node, remove_edge,
\* remove_nodes_if and remove_edges_if, node_index(id) (edge_index(id)) is the
\* position in nodes() (edges()) of the unique element with that id, and the
\* maps contain exactly the ids present in the sequences.
C6_IndexMapsAgree ==
    /\ MapAgrees(m_graph.nodes, m_graph.nmap)
    /\ MapAgrees(m_graph.edges, m_graph.emap)

\* C6 witness: a bulk removal has moved a node and an edge to the front
C6_Witness ==
    /\ g_last \in {"remove_nodes_if", "remove_edges_if"}
    /\ Len(m_graph.nodes) >= 2
    /\ m_graph.nodes[1].id # 0
    /\ Len(m_graph.edges) >= 1
    /\ m_graph.edges[1].id # 0

\* the elements of a sequence whose id is not in ids, in their order
Without(vec, ids) == SelectSeq(vec, LAMBDA x : x.id \notin ids)

\* the edges of g at node id, found by their ends
EdgesAt(g, id) ==
    { g.edges[i].id : i \in { j \in 1 .. Len(g.edges) :
                                id \in { g.edges[j].one, g.edges[j].two } } }

\* g2 is g without node id and without the edges at it, and the lookups of
\* g2 no longer find them
RemovedExactly(g, g2, id) ==
    /\ g2.nodes = Without(g.nodes, {id})
    /\ g2.edges = Without(g.edges, EdgesAt(g, id))
    /\ ~ node_exists(g2, id)
    /\ \A e \in EdgesAt(g, id) : ~ edge_exists(g2, e)
    /\ \A b \in GraphNodeIds :
          /\ edge_exists_between(g2, id, b) = "out_of_range"
          /\ edge_exists_between(g2, b, id) = "out_of_range"

\* a step in which remove_node has returned and has changed the graph
RemoveNodeStep ==
    /\ g_last' = "remove_node"
    /\ g_thrown' = "none"
    /\ m_graph' # m_graph

\* C23: remove_node(id) on a graph that contains id removes that node and
\* the edges at it and nothing else: the other nodes and edges stay, in their
\* order; afterwards node_exists(id) and edge_exists(e) of an edge that was
\* at id are false, and edge_exists(a, b) with id for an end throws
\* out_of_range
C23_RemoveNodeExact ==
    [][RemoveNodeStep =>
          \E id \in NodeIdsOf(m_graph) : RemovedExactly(m_graph, m_graph', id)]_vars

\* remove_node has returned on a graph that keeps two nodes and an edge
C23_Witness ==
    /\ g_last = "remove_node"
    /\ g_thrown = "none"
    /\ Len(m_graph.nodes) = MaxGraphNodes - 1
    /\ Len(m_graph.edges) >= 1

(***************************************************************************)
(* dynamic_graph.h: class dynamic_graph.  A queued modification is a       *)
(* record naming the graph operation its closure calls.                    *)
(***************************************************************************)
DynInit ==
    /\ m_last_node_id = 0
    /\ m_last_edge_id = 0
    /\ m_states = << >>
    /\ m_modifications = << >>
    /\ d_last = "none"
    /\ d_thrown = "none"
    /\ d_log = << >>
    /\ d_calls = 0
    /\ d_again = FALSE

\* mutant: the log is resized to time entries more than it needs
add_modification_resize(mods, time, operation) ==
    LET resized == IF time >= Len(mods)
                   THEN mods \o [i \in 1 .. (time + 2 - Len(mods)) |-> << >>]
                   ELSE mods
    IN  [resized EXCEPT ![time + 1] = Append(@, operation)]

\* dynamic_graph::add_modification
add_modification(mods, time, operation) ==
    LET resized == IF time >= Len(mods)
                   THEN mods \o [i \in 1 .. (time + 1 - Len(mods)) |-> << >>]
                   ELSE mods
    IN  [resized EXCEPT ![time + 1] = Append(@, operation)]

\* the closure queued by add_node, add_edge, remove_node, remove_edge, called
ApplyOperation(g, operation) ==
    CASE operation.op = "push_node"   -> Returned(push_node(g, node(operation.id)))
      [] operation.op = "push_edge"   ->
            push_edge(g, edge(operation.id, operation.one, operation.two))
      [] operation.op = "remove_node" -> remove_node(g, operation.id)
      [] operation.op = "remove_edge" -> remove_edge(g, operation.id)

\* the inner loop of apply_modifications: an exception ends it
RECURSIVE ApplyOperations(_, _)
ApplyOperations(g, mod) ==
    IF mod = << >> THEN Returned(g)
    ELSE LET r == ApplyOperation(g, Head(mod))
         IN  IF r.thrown # "none" THEN r
             ELSE ApplyOperations(r.g, Tail(mod))

\* the outer loop of apply_modifications; an exception leaves the keyframes
\* pushed so far
RECURSIVE ApplySteps(_, _)
ApplySteps(states, mods) ==
    IF mods = << >> THEN [states |-> states, thrown |-> "none"]
    ELSE LET new_state == IF states = << >> THEN EmptyGraph ELSE states[Len(states)]
             r == ApplyOperations(new_state, Head(mods))
         IN  IF r.thrown # "none" THEN [states |-> states, thrown |-> r.thrown]
             ELSE ApplySteps(Append(states, r.g), Tail(mods))

\* dynamic_graph::apply_modifications
apply_modifications(mods) == ApplySteps(<< >>, mods)

\* mutant: the log is cleared when an operation has thrown, too
modifications_cleared(mods, thrown) == << >>

\* m_modifications after apply_modifications: m_modifications.clear() is its
\* last statement, which an exception does not reach
modifications_after(mods, thrown) == IF thrown = "none" THEN << >> ELSE mods

\* mutant: is_new does not ask for i > 0
BoolValuesNoFirst(states, i, elem, kind) ==
    [elem EXCEPT !.is_old = (i < Len(states)) /\ elem.id \notin DOMAIN states[i + 1][kind],
                 !.is_new = (i = 1) \/ elem.id \notin DOMAIN states[i - 1][kind]]

\* the two flags of one element of states[i], kind being "nmap" or "emap"
BoolValues(states, i, elem, kind) ==
    [elem EXCEPT !.is_old = (i < Len(states)) /\ elem.id \notin DOMAIN states[i + 1][kind],
                 !.is_new = (i > 1) /\ elem.id \notin DOMAIN states[i - 1][kind]]

\* dynamic_graph::set_bool_values
set_bool_values(states) ==
    [i \in 1 .. Len(states) |->
        [states[i] EXCEPT
            !.nodes = [k \in 1 .. Len(states[i].nodes) |->
                         BoolValues(states, i, states[i].nodes[k], "nmap")],
            !.edges = [k \in 1 .. Len(states[i].edges) |->
                         BoolValues(states, i, states[i].edges[k], "emap")]]]

SetMax(S) == CHOOSE x \in S : \A y \in S : y <= x

Max(a, b) == IF a >= b THEN a ELSE b

\* dynamic_graph::recalculate_ids, for the node counter and for the edge counter
RECURSIVE RecalculateIds(_, _, _)
RecalculateIds(last, states, kind) ==
    IF states = << >> THEN last
    ELSE LET ids == DOMAIN Head(states)[kind]
         IN  RecalculateIds(IF ids # {} THEN Max(last, SetMax(ids) + 1) ELSE last,
                            Tail(states), kind)

\* dynamic_graph::add_node
AddNode ==
    /\ d_calls < MaxMods
    /\ m_last_node_id < MaxNodes
    /\ \E time \in Times :
        m_modifications' = add_modification(m_modifications, time,
                               [op |-> "push_node", id |-> m_last_node_id])
    /\ m_last_node_id' = m_last_node_id + 1
    /\ d_last' = "queue"
    /\ d_thrown' = "none"
    /\ d_calls' = d_calls + 1
    /\ d_log' = << >>
    /\ UNCHANGED << m_last_edge_id, m_states >>
    /\ d_again' = FALSE
    /\ UNCHANGED dynOthers

\* dynamic_graph::add_edge
AddEdge ==
    /\ d_calls < MaxMods
    /\ m_last_edge_id < MaxEdges
    /\ \E time \in Times :
        m_modifications' = add_modification(m_modifications, time,
                               [op |-> "push_edge", id |-> m_last_edge_id,
                                one |-> EndsOf(m_last_edge_id, MaxNodes)[1],
                                two |-> EndsOf(m_last_edge_id, MaxNodes)[2]])
    /\ m_last_edge_id' = m_last_edge_id + 1
    /\ d_last' = "queue"
    /\ d_thrown' = "none"
    /\ d_calls' = d_calls + 1
    /\ d_log' = << >>
    /\ UNCHANGED << m_last_node_id, m_states >>
    /\ d_again' = FALSE
    /\ UNCHANGED dynOthers

\* dynamic_graph::remove_node, of a node id that add_node has returned
RemoveNode ==
    /\ d_calls < MaxMods
    /\ \E time \in Times, id \in 0 .. (m_last_node_id - 1) :
        m_modifications' = add_modification(m_modifications, time,
                               [op |-> "remove_node", id |-> id])
    /\ d_last' = "queue"
    /\ d_thrown' = "none"
    /\ d_calls' = d_calls + 1
    /\ d_log' = << >>
    /\ UNCHANGED << m_last_node_id, m_last_edge_id, m_states >>
    /\ d_again' = FALSE
    /\ UNCHANGED dynOthers

\* dynamic_graph::remove_edge, of an edge id that add_edge has returned
RemoveEdge ==
    /\ d_calls < MaxMods
    /\ \E time \in Times, id \in 0 .. (m_last_edge_id - 1) :
        m_modifications' = add_modification(m_modifications, time,
                               [op |-> "remove_edge", id |-> id])
    /\ d_last' = "queue"
    /\ d_thrown' = "none"
    /\ d_calls' = d_calls + 1
    /\ d_log' = << >>
    /\ UNCHANGED << m_last_node_id, m_last_edge_id, m_states >>
    /\ d_again' = FALSE
    /\ UNCHANGED dynOthers

\* dynamic_graph::build()
Build ==
    LET r == apply_modifications(m_modifications)
    IN  /\ d_log' = m_modifications
        /\ d_last' = "build"
        /\ d_thrown' = r.thrown
        /\ IF r.thrown # "none"
           THEN m_states' = r.states
           ELSE m_states' = set_bool_values(r.states)
        /\ m_modifications' = modifications_after(m_modifications, r.thrown)
        /\ d_again' = (d_last = "build")
        /\ UNCHANGED << m_last_node_id, m_last_edge_id, d_calls >>
        /\ UNCHANGED dynOthers

\* dynamic_graph::build(std::vector<graph_state>), given a run of keyframes of
\* a dynamic graph built before (their flags are those of the old sequence)
BuildStates ==
    /\ m_states # << >>
    /\ \E from \in 1 .. Len(m_states), to \in 1 .. Len(m_states) :
        /\ from <= to
        /\ LET states == SubSeq(m_states, from, to)
           IN  /\ m_states' = set_bool_values(states)
               /\ m_last_node_id' = RecalculateIds(m_last_node_id, states, "nmap")
               /\ m_last_edge_id' = RecalculateIds(m_last_edge_id, states, "emap")
    /\ m_modifications' = << >>
    /\ d_last' = "build_states"
    /\ d_thrown' = "none"
    /\ d_log' = << >>
    /\ UNCHANGED d_calls
    /\ d_again' = FALSE
    /\ UNCHANGED dynOthers

\* dynamic_graph::clear
Clear ==
    /\ m_states' = << >>
    /\ m_modifications' = << >>
    /\ d_last' = "clear"
    /\ d_thrown' = "none"
    /\ d_log' = << >>
    /\ UNCHANGED << m_last_node_id, m_last_edge_id, d_calls >>
    /\ d_again' = FALSE
    /\ UNCHANGED dynOthers

DynNext ==
    \/ AddNode
    \/ AddEdge
    \/ RemoveNode
    \/ RemoveEdge
    \/ Build
    \/ BuildStates
    \/ Clear

(***************************************************************************)
(* Claims about the dynamic graph (Spec).  The reference below replays a   *)
(* log over plain sets of nodes and edges, as the documentation of build() *)
(* describes it; it uses none of the operators that model graph.h.         *)
(***************************************************************************)
RefEmpty == [nodes |-> {}, edges |-> {}, failed |-> FALSE]

\* one queued operation on a reference keyframe
RefOperation(k, operation) ==
    CASE operation.op = "push_node" ->
            [k EXCEPT !.nodes = @ \cup {operation.id}]
      [] operation.op = "push_edge" ->
            IF operation.one \in k.nodes /\ operation.two \in k.nodes
            THEN [k EXCEPT !.edges = @ \cup {<< operation.id, operation.one, operation.two >>}]
            ELSE [k EXCEPT !.failed = TRUE]
      [] operation.op = "remove_node" ->
            IF operation.id \in k.nodes
            THEN [k EXCEPT !.nodes = @ \ {operation.id},
                           !.edges = { e \in @ : e[2] # operation.id /\ e[3] # operation.id }]
            ELSE [k EXCEPT !.failed = TRUE]
      [] operation.op = "remove_edge" ->
            IF \E e \in k.edges : e[1] = operation.id
            THEN [k EXCEPT !.edges = { e \in @ : e[1] # operation.id }]
            ELSE [k EXCEPT !.failed = TRUE]

RECURSIVE RefOperations(_, _)
RefOperations(k, mod) ==
    IF mod = << >> \/ k.failed THEN k
    ELSE RefOperations(RefOperation(k, Head(mod)), Tail(mod))

\* the reference keyframe of step t (counted from 1) of a log
RECURSIVE RefState(_, _)
RefState(log, t) ==
    IF t = 0 THEN RefEmpty
    ELSE RefOperations(RefState(log, t - 1), log[t])

RefFails(log) == log # << >> /\ RefState(log, Len(log)).failed

EdgeTriplesOf(g) ==
    { << g.edges[i].id, g.edges[i].one, g.edges[i].two >> : i \in 1 .. Len(g.edges) }

\* the last call was a build() that succeeded
BuildSucceeded == d_last = "build" /\ d_thrown = "none"

\* the last call was a build() or a build(states) that succeeded
AnyBuildSucceeded == d_last \in {"build", "build_states"} /\ d_thrown = "none"

\* the flags of one element of m_states[t], ids being the ids of its kind
FlagsRight(elem, t, ids) ==
    /\ elem.is_new = ((t > 1) /\ elem.id \notin ids[t - 1])
    /\ elem.is_old = ((t < Len(m_states)) /\ elem.id \notin ids[t + 1])

NodeIdsAt == [t \in 0 .. (Len(m_states) + 1) |->
                IF t \in 1 .. Len(m_states) THEN NodeIdsOf(m_states[t]) ELSE {}]

EdgeIdsAt == [t \in 0 .. (Len(m_states) + 1) |->
                IF t \in 1 .. Len(m_states) THEN EdgeIdsOf(m_states[t]) ELSE {}]

\* C1: after a successful build() or build(states), for every keyframe t and
\* every node or edge e of states[t]: e.is_new iff t > 0 and e's id is absent
\* from states[t-1]; e.is_old iff t < last and e's id is absent from states[t+1].
C1_BoolValues ==
    AnyBuildSucceeded =>
        \A t \in 1 .. Len(m_states) :
            /\ \A k \in 1 .. Len(m_states[t].nodes) :
                  FlagsRight(m_states[t].nodes[k], t, NodeIdsAt)
            /\ \A k \in 1 .. Len(m_states[t].edges) :
                  FlagsRight(m_states[t].edges[k], t, EdgeIdsAt)

\* C1 witness: build() has succeeded, a node of a middle keyframe is both new and
\* old, and an edge is old
C1_Witness ==
    /\ BuildSucceeded
    /\ \E t \in 1 .. Len(m_states) :
        /\ \E k \in 1 .. Len(m_states[t].nodes) :
              m_states[t].nodes[k].is_new /\ m_states[t].nodes[k].is_old
        /\ \E k \in 1 .. Len(m_states[t].edges) : m_states[t].edges[k].is_old

\* the times (steps counted from 0) at which the log queues an operation
TimesOf(log, opname, id) ==
    { t \in 0 .. (Len(log) - 1) :
        \E k \in 1 .. Len(log[t + 1]) :
            log[t + 1][k].op = opname /\ log[t + 1][k].id = id }

\* the largest time passed to any add_* / remove_* call of a non-empty log
LargestTime(log) == SetMax({ t \in 0 .. (Len(log) - 1) : log[t + 1] # << >> })

SetMin(S) == CHOOSE x \in S : \A y \in S : x <= y

\* the ids of the nodes and of the edges the log adds
AddedNodes(log) == { id \in NodeIds : TimesOf(log, "push_node", id) # {} }
AddedEdges(log) == { id \in EdgeIds : TimesOf(log, "push_edge", id) # {} }

\* the keyframes (times) in which an element added at a and removed at the
\* times of removed is present: a <= t < r, r the removal, or a <= t if none
PresentFrom(a, removed, t) ==
    /\ a <= t
    /\ removed # {} => t < SetMin(removed)

\* the number of keyframes, and each keyframe as the replay of the log
KeyframesReplayLog ==
    /\ d_log = << >> => m_states = << >>
    /\ d_log # << >> => Len(m_states) = LargestTime(d_log) + 1
    /\ \A t \in 1 .. Len(m_states) :
        /\ NodeIdsOf(m_states[t]) = RefState(d_log, t).nodes
        /\ EdgeTriplesOf(m_states[t]) = RefState(d_log, t).edges

\* a node added at time a and removed at time r > a (or never) is present
\* exactly in the keyframes a <= t < r
NodesPresentWhileLive ==
    \A id \in AddedNodes(d_log) :
        LET a == SetMin(TimesOf(d_log, "push_node", id))
            removed == TimesOf(d_log, "remove_node", id)
        IN  (\A r \in removed : r > a) =>
                \A t \in 0 .. (Len(m_states) - 1) :
                    (id \in NodeIdsOf(m_states[t + 1])) = PresentFrom(a, removed, t)

\* the operations of a log
OperationsOf(log) ==
    UNION { { log[t][k] : k \in 1 .. Len(log[t]) } : t \in 1 .. Len(log) }

\* the operation of the log that adds edge id
EdgeOperation(log, id) ==
    CHOOSE operation \in OperationsOf(log) :
        operation.op = "push_edge" /\ operation.id = id

\* the times at which the log removes an end of edge id
EndRemovals(log, id) ==
    TimesOf(log, "remove_node", EdgeOperation(log, id).one)
        \cup TimesOf(log, "remove_node", EdgeOperation(log, id).two)

\* an edge added at time a and removed at time r > a (or never) is present
\* exactly in the keyframes a <= t < r
EdgesPresentUntilRemoved ==
    \A id \in AddedEdges(d_log) :
        LET a == SetMin(TimesOf(d_log, "push_edge", id))
            removed == TimesOf(d_log, "remove_edge", id)
        IN  (\A r \in removed : r > a) =>
                \A t \in 0 .. (Len(m_states) - 1) :
                    (id \in EdgeIdsOf(m_states[t + 1])) = PresentFrom(a, removed, t)

\* an edge added at time a and removed at time r > a (or never) is present
\* exactly in the keyframes from a up to the first removal of the edge or of
\* one of its ends
EdgesPresentWhileLive ==
    \A id \in AddedEdges(d_log) :
        LET a == SetMin(TimesOf(d_log, "push_edge", id))
            removed == TimesOf(d_log, "remove_edge", id)
        IN  (\A r \in removed : r > a) =>
                \A t \in 0 .. (Len(m_states) - 1) :
                    (id \in EdgeIdsOf(m_states[t + 1]))
                        = PresentFrom(a, removed \cup EndRemovals(d_log, id), t)

\* C2 as stated: after a successful build(), states() has (largest time) + 1
\* keyframes (0 for an empty log), states[t] is states[t-1] with the operations
\* of step t applied in order, and an element (node or edge) added at time a and
\* removed at time r > a (or never) is present exactly for a <= t < r.
C2_AsStated ==
    BuildSucceeded =>
        /\ KeyframesReplayLog
        /\ NodesPresentWhileLive
        /\ EdgesPresentUntilRemoved

\* C2 amended: as C2, but an edge added at time a and removed at time r > a (or
\* never) is present exactly for a <= t < r', where r' is the earliest of r and
\* the times at which one of its ends is removed.
C2_KeyframesFromLog ==
    BuildSucceeded =>
        /\ KeyframesReplayLog
        /\ NodesPresentWhileLive
        /\ EdgesPresentWhileLive

\* C2 witness: build() has succeeded on a log that removes a node at a later
\* time than it adds it, while an edge at that node exists
C2_Witness ==
    /\ BuildSucceeded
    /\ \E id \in AddedEdges(d_log) :
        /\ TimesOf(d_log, "remove_edge", id) = {}
        /\ \E r \in EndRemovals(d_log, id) :
            /\ r > SetMin(TimesOf(d_log, "push_edge", id))
            /\ id \in EdgeIdsOf(m_states[r])
            /\ id \notin EdgeIdsOf(m_states[r + 1])

\* C3: build() fails with InvalidGraph iff, replaying the log step by step in
\* queue order, some add_edge names an end absent from the keyframe under
\* construction, or some remove_node / remove_edge names an absent element.
C3_FailsIffInvalid ==
    d_last = "build" => ((d_thrown = "invalid_graph") = RefFails(d_log))

\* C3 witness: build() has failed on a log that removes the same node twice,
\* the first removal being valid
C3_Witness ==
    /\ d_last = "build"
    /\ d_thrown = "invalid_graph"
    /\ \E id \in AddedNodes(d_log) :
        /\ Cardinality(TimesOf(d_log, "remove_node", id)) = 2
        /\ SetMin(TimesOf(d_log, "remove_node", id)) > SetMin(TimesOf(d_log, "push_node", id))

\* C4: after a successful build(), in every keyframe every edge has both of
\* its ends present in that keyframe.
C4_EdgesHaveEnds ==
    BuildSucceeded =>
        \A t \in 1 .. Len(m_states) :
            \A k \in 1 .. Len(m_states[t].edges) :
                /\ m_states[t].edges[k].one \in NodeIdsOf(m_states[t])
                /\ m_states[t].edges[k].two \in NodeIdsOf(m_states[t])

\* C4 witness: build() has succeeded on a log that removes a node while an edge
\* at it exists, and a later keyframe still has a node
C4_Witness ==
    /\ BuildSucceeded
    /\ \E t \in 1 .. (Len(m_states) - 1) :
        /\ \E k \in 1 .. Len(m_states[t].edges) :
              /\ m_states[t].edges[k].is_old
              /\ m_states[t].edges[k].one \notin NodeIdsOf(m_states[t + 1])
        /\ m_states[t + 1].nodes # << >>

(***************************************************************************)
(* parallel.h: class detail::barrier.  m_gen is an unsigned counter; it    *)
(* cannot wrap within the number of rounds explored here.                  *)
(***************************************************************************)
barrier(count) == [m_size |-> count, m_current |-> count, m_gen |-> 0]

\* the body of wait() up to the test: --m_current == 0
IsLastArriver(b) == b.m_current - 1 = 0

\* the barrier after one thread has executed the body of wait() under the
\* mutex: the last arriver bumps the generation and re-arms the counter
Arrive(b) ==
    IF IsLastArriver(b)
    THEN [b EXCEPT !.m_gen = @ + 1, !.m_current = b.m_size]
    ELSE [b EXCEPT !.m_current = @ - 1]

\* mutant: a wait that returns on any wake-up
WaitPredicateAlways(gen, b) == TRUE

\* the predicate of m_cv.wait in wait()
WaitPredicate(gen, b) == gen # b.m_gen

(***************************************************************************)
(* SpecBarrier: BarrierSize threads call wait() on one barrier of size     *)
(* BarrierSize, each up to MaxWaits times.                                 *)
(***************************************************************************)
BarrierInit ==
    /\ bar = barrier(BarrierSize)
    /\ b_pc = [t \in BarrierThreads |-> "out"]
    /\ b_gen = [t \in BarrierThreads |-> 0]
    /\ b_entered = [t \in BarrierThreads |-> 0]
    /\ b_returned = [t \in BarrierThreads |-> 0]

\* thread t calls wait() and runs its body under the mutex up to the return
\* (last arriver) or up to the block in m_cv.wait
BarEnter(t) ==
    /\ b_pc[t] = "out"
    /\ b_entered[t] < MaxWaits
    /\ b_entered' = [b_entered EXCEPT ![t] = @ + 1]
    /\ b_gen' = [b_gen EXCEPT ![t] = bar.m_gen]
    /\ bar' = Arrive(bar)
    /\ IF IsLastArriver(bar)
       THEN /\ b_returned' = [b_returned EXCEPT ![t] = @ + 1]
            /\ b_pc' = b_pc
       ELSE /\ b_returned' = b_returned
            /\ b_pc' = [b_pc EXCEPT ![t] = "waiting"]
    /\ UNCHANGED barrierOthers

\* thread t is woken in m_cv.wait, by notify_all or spuriously
BarWake(t) ==
    /\ b_pc[t] = "waiting"
    /\ b_pc' = [b_pc EXCEPT ![t] = "awake"]
    /\ UNCHANGED << bar, b_gen, b_entered, b_returned >>
    /\ UNCHANGED barrierOthers

\* thread t, holding the mutex again, tests the predicate: it returns from
\* wait() or blocks again
BarRecheck(t) ==
    /\ b_pc[t] = "awake"
    /\ IF WaitPredicate(b_gen[t], bar)
       THEN /\ b_returned' = [b_returned EXCEPT ![t] = @ + 1]
            /\ b_pc' = [b_pc EXCEPT ![t] = "out"]
       ELSE /\ b_returned' = b_returned
            /\ b_pc' = [b_pc EXCEPT ![t] = "waiting"]
    /\ UNCHANGED << bar, b_gen, b_entered >>
    /\ UNCHANGED barrierOthers

BarrierEnter == \E t \in BarrierThreads : BarEnter(t)
BarrierWake == \E t \in BarrierThreads : BarWake(t)
BarrierRecheck == \E t \in BarrierThreads : BarRecheck(t)

BarrierNext ==
    \/ BarrierEnter
    \/ BarrierWake
    \/ BarrierRecheck

(***************************************************************************)
(* C9: no thread returns from its k-th wait() before all threads have      *)
(* entered their k-th wait(): the number of waits any thread has returned  *)
(* from never exceeds the number of waits any thread has entered.          *)
(***************************************************************************)
C9_BarrierHolds ==
    \A t \in BarrierThreads : \A u \in BarrierThreads :
        b_returned[t] <= b_entered[u]

\* a released thread has re-arrived for round 2 and was woken spuriously
\* there, while another thread has not yet woken from round 1
C9_Witness ==
    \E t \in BarrierThreads : \E u \in BarrierThreads :
        /\ b_entered[t] = 2
        /\ b_pc[t] = "awake"
        /\ ~WaitPredicate(b_gen[t], bar)
        /\ b_entered[u] = 1
        /\ b_returned[u] = 0
        /\ b_pc[u] = "waiting"

(***************************************************************************)
(* parallel.h: class detail::parallel, a pool of PoolSize threads: the     *)
(* thread that owns the pool (slot 0) and the workers (slots 1 ..).        *)
(***************************************************************************)
\* mutant: the flag of the last slot is left as it is
run_all_but_last(params) ==
    [i \in DOMAIN params |->
        IF i = PoolSize - 1 THEN params[i] ELSE [params[i] EXCEPT !.run = TRUE]]

\* run_all(): every slot's run flag is set
run_all(params) == [i \in DOMAIN params |-> [params[i] EXCEPT !.run = TRUE]]

\* for_each_interleaved: a job is assigned to every slot
AssignAll(params) == [i \in DOMAIN params |-> [params[i] EXCEPT !.func = TRUE]]

\* mutant: the worker leaves its run flag set
ConsumeRunKeeps(params, i) == params

\* thread_func: p->run = false
ConsumeRun(params, i) == [params EXCEPT ![i].run = FALSE]

\* the state after the constructor: init(count) has reset the barrier, made
\* the slots and started the workers, which block until their flag is set
PoolInit ==
    /\ m_params = [i \in PoolSlots |-> [func |-> FALSE, run |-> FALSE]]
    /\ m_end = FALSE
    /\ m_bar = barrier(PoolSize)
    /\ p_main = "idle"
    /\ p_worker = [i \in PoolWorkers |-> "cv_wait"]
    /\ p_gen = [i \in PoolSlots |-> 0]
    /\ p_calls = 0
    /\ p_expected = [i \in PoolSlots |-> 0]
    /\ p_started = [i \in PoolSlots |-> 0]
    /\ p_finished = [i \in PoolSlots |-> 0]

\* the number of perform() calls made with a job in the slot, after a call
\* on the slots params
ExpectedAfter(params) ==
    [i \in PoolSlots |-> IF params[i].func THEN p_expected[i] + 1
                         ELSE p_expected[i]]

\* perform() up to notify_all, with the jobs assigned so far
PerformCall ==
    /\ p_main = "idle"
    /\ p_calls < MaxPerforms
    /\ m_params' = run_all(m_params)
    /\ p_calls' = p_calls + 1
    /\ p_expected' = ExpectedAfter(m_params)
    /\ p_main' = "job"
    /\ UNCHANGED << m_end, m_bar, p_worker, p_gen, p_started, p_finished >>
    /\ UNCHANGED poolOthers

\* for_each_interleaved(func): assigns a job to every slot, then perform()
\* up to notify_all
ForEachCall ==
    /\ p_main = "idle"
    /\ p_calls < MaxPerforms
    /\ m_params' = run_all(AssignAll(m_params))
    /\ p_calls' = p_calls + 1
    /\ p_expected' = ExpectedAfter(AssignAll(m_params))
    /\ p_main' = "job"
    /\ UNCHANGED << m_end, m_bar, p_worker, p_gen, p_started, p_finished >>
    /\ UNCHANGED poolOthers

\* perform(): the owner starts its own job, if one is assigned
MainJob ==
    /\ p_main = "job"
    /\ IF m_params[0].func
       THEN /\ p_started' = [p_started EXCEPT ![0] = @ + 1]
            /\ p_main' = "running"
       ELSE /\ p_started' = p_started
            /\ p_main' = "bar"
    /\ UNCHANGED << m_params, m_end, m_bar, p_worker, p_gen, p_calls,
                    p_expected, p_finished >>
    /\ UNCHANGED poolOthers

\* the owner's job returns
MainJobReturn ==
    /\ p_main = "running"
    /\ p_finished' = [p_finished EXCEPT ![0] = @ + 1]
    /\ p_main' = "bar"
    /\ UNCHANGED << m_params, m_end, m_bar, p_worker, p_gen, p_calls,
                    p_expected, p_started >>
    /\ UNCHANGED poolOthers

\* perform(): m_bar.wait(), the body of wait() under the barrier's mutex
MainBarEnter ==
    /\ p_main = "bar"
    /\ p_gen' = [p_gen EXCEPT ![0] = m_bar.m_gen]
    /\ m_bar' = Arrive(m_bar)
    /\ p_main' = IF IsLastArriver(m_bar) THEN "idle" ELSE "bar_wait"
    /\ UNCHANGED << m_params, m_end, p_worker, p_calls, p_expected,
                    p_started, p_finished >>
    /\ UNCHANGED poolOthers

\* perform(): the owner wakes in m_bar.wait() with the predicate true, and
\* perform() returns
MainBarWake ==
    /\ p_main = "bar_wait"
    /\ WaitPredicate(p_gen[0], m_bar)
    /\ p_main' = "idle"
    /\ UNCHANGED << m_params, m_end, m_bar, p_worker, p_gen, p_calls,
                    p_expected, p_started, p_finished >>
    /\ UNCHANGED poolOthers

\* quit() up to notify_all (the destructor)
Quit ==
    /\ p_main = "idle"
    /\ m_end' = TRUE
    /\ m_params' = run_all(m_params)
    /\ p_main' = "join"
    /\ UNCHANGED << m_bar, p_worker, p_gen, p_calls, p_expected,
                    p_started, p_finished >>
    /\ UNCHANGED poolOthers

\* quit(): every join() has returned
Joined ==
    /\ p_main = "join"
    /\ \A i \in PoolWorkers : p_worker[i] = "exited"
    /\ p_main' = "destroyed"
    /\ UNCHANGED << m_params, m_end, m_bar, p_worker, p_gen, p_calls,
                    p_expected, p_started, p_finished >>
    /\ UNCHANGED poolOthers

\* thread_func: m_cv.wait returns with p->run set; the flag is cleared and
\* the lock released
WorkerRun(i) ==
    /\ p_worker[i] = "cv_wait"
    /\ m_params[i].run
    /\ m_params' = ConsumeRun(m_params, i)
    /\ p_worker' = [p_worker EXCEPT ![i] = "unlocked"]
    /\ UNCHANGED << m_end, m_bar, p_main, p_gen, p_calls, p_expected,
                    p_started, p_finished >>
    /\ UNCHANGED poolOthers

\* thread_func: leaves the loop when m_end is set, else starts its job, if
\* one is assigned
WorkerJob(i) ==
    /\ p_worker[i] = "unlocked"
    /\ IF m_end
       THEN /\ p_worker' = [p_worker EXCEPT ![i] = "exited"]
            /\ p_started' = p_started
       ELSE IF m_params[i].func
       THEN /\ p_worker' = [p_worker EXCEPT ![i] = "running"]
            /\ p_started' = [p_started EXCEPT ![i] = @ + 1]
       ELSE /\ p_worker' = [p_worker EXCEPT ![i] = "bar"]
            /\ p_started' = p_started
    /\ UNCHANGED << m_params, m_end, m_bar, p_main, p_gen, p_calls,
                    p_expected, p_finished >>
    /\ UNCHANGED poolOthers

\* the worker's job returns
WorkerJobReturn(i) ==
    /\ p_worker[i] = "running"
    /\ p_finished' = [p_finished EXCEPT ![i] = @ + 1]
    /\ p_worker' = [p_worker EXCEPT ![i] = "bar"]
    /\ UNCHANGED << m_params, m_end, m_bar, p_main, p_gen, p_calls,
                    p_expected, p_started >>
    /\ UNCHANGED poolOthers

\* thread_func: m_bar.wait(), the body of wait() under the barrier's mutex
WorkerBarEnter(i) ==
    /\ p_worker[i] = "bar"
    /\ p_gen' = [p_gen EXCEPT ![i] = m_bar.m_gen]
    /\ m_bar' = Arrive(m_bar)
    /\ p_worker' = [p_worker EXCEPT ![i] =
                       IF IsLastArriver(m_bar) THEN "cv_wait" ELSE "bar_wait"]
    /\ UNCHANGED << m_params, m_end, p_main, p_calls, p_expected,
                    p_started, p_finished >>
    /\ UNCHANGED poolOthers

\* thread_func: the worker wakes in m_bar.wait() with the predicate true and
\* goes round its loop
WorkerBarWake(i) ==
    /\ p_worker[i] = "bar_wait"
    /\ WaitPredicate(p_gen[i], m_bar)
    /\ p_worker' = [p_worker EXCEPT ![i] = "cv_wait"]
    /\ UNCHANGED << m_params, m_end, m_bar, p_main, p_gen, p_calls,
                    p_expected, p_started, p_finished >>
    /\ UNCHANGED poolOthers

WorkersRun == \E i \in PoolWorkers : WorkerRun(i)
WorkersJob == \E i \in PoolWorkers : WorkerJob(i)
WorkersJobReturn == \E i \in PoolWorkers : WorkerJobReturn(i)
WorkersBarEnter == \E i \in PoolWorkers : WorkerBarEnter(i)
WorkersBarWake == \E i \in PoolWorkers : WorkerBarWake(i)

PoolNext ==
    \/ PerformCall
    \/ ForEachCall
    \/ MainJob
    \/ MainJobReturn
    \/ MainBarEnter
    \/ MainBarWake
    \/ Quit
    \/ Joined
    \/ WorkersRun
    \/ WorkersJob
    \/ WorkersJobReturn
    \/ WorkersBarEnter
    \/ WorkersBarWake

(***************************************************************************)
(* C10: every perform() runs each assigned job exactly once and returns    *)
(* only after all of them have finished, for every call of a sequence: a   *)
(* job is never started more often than perform() was called with it       *)
(* assigned, and whenever the owner is outside perform() every job has     *)
(* finished exactly as often as that.                                      *)
(***************************************************************************)
C10_PerformRunsEachJobOnce ==
    /\ \A i \in PoolSlots :
          /\ p_finished[i] <= p_started[i]
          /\ p_started[i] <= p_expected[i]
    /\ p_main \in {"idle", "join", "destroyed"} =>
          \A i \in PoolSlots : p_finished[i] = p_expected[i]

\* two consecutive perform() calls with a job in every slot have returned
C10_Witness ==
    /\ p_main = "idle"
    /\ p_calls = 2
    /\ \A i \in PoolSlots : p_expected[i] = 2 /\ p_finished[i] = 2

(***************************************************************************)
(* foresighted_layout.h, foresighted_parallel.h: the tolerance pass.  A    *)
(* keyframe's layout is the coordinate of one node that lives in every     *)
(* keyframe, on a grid.  The static layout's forces on the node are a pull *)
(* towards an equilibrium that depends on the keyframe's graph; the step   *)
(* limited by the temperature and the clamp to the canvas are those of     *)
(* fruchterman_reingold::displacement.                                     *)
(***************************************************************************)
Abs(x) == IF x < 0 THEN -x ELSE x
Min(a, b) == IF a < b THEN a ELSE b

\* displacement(): clamp(size, coord)
clamp(size, coord) == Min(size, Max(-size, coord))

\* StaticLayout::iteration on one keyframe: the node moves along its
\* displacement disp by min(|disp|, t), then is clamped to the canvas
iteration(pos, equilibrium, t) ==
    LET disp == equilibrium - pos
        disp_len == Abs(disp)
        moved == IF disp_len # 0
                 THEN pos + (IF disp < 0 THEN -1 ELSE 1) * Min(disp_len, t)
                 ELSE pos
    IN  clamp(Half, moved)

\* distance(one, two) in relative mode: the mean over the shared nodes (here
\* the one node) of the distance between their positions
distance(one, two) == Abs(one - two)

\* the default cooling of foresighted_layout: t * 0.977, on the grid
anneal(t) == (t * 977) \div 1000

\* mutant: the test against the following keyframe is left out
AcceptsLeftOnly(copy, s, lefts, rights, tolerance_value) ==
    s = 0 \/ distance(copy, lefts[s]) < tolerance_value

\* the acceptance test of keyframe s (0-based; keyframe s is element s + 1 of
\* a vector): lefts holds the layout to compare with on the left, rights on
\* the right
Accepts(copy, s, lefts, rights, tolerance_value) ==
    /\ s = 0 \/ distance(copy, lefts[s]) < tolerance_value
    /\ s >= Len(rights) - 1 \/ distance(copy, rights[s + 2]) < tolerance_value

\* parallel pass: get(i) for every i
Get(apply, copies, states) ==
    [i \in DOMAIN states |-> IF apply[i] THEN copies[i] ELSE states[i]]

\* mutant: the indices from begin on, whatever the step
IndicesFromBegin(begin, step, size) ==
    { i \in 0 .. (size - 1) : i >= begin }

\* parallel pass: the indices of the thread whose job is func(begin, step)
Indices(begin, step, size) ==
    { i \in 0 .. (size - 1) : i >= begin /\ (i - begin) % step = 0 }

\* parallel pass: the scan of thread 0 from index i on, apply so far given
RECURSIVE Scan(_, _, _, _, _)
Scan(i, apply, copies, states, tolerance_value) ==
    IF i >= Len(states) THEN apply
    ELSE LET cleared == [apply EXCEPT ![i + 1] = FALSE]
             ok == Accepts(copies[i + 1], i, Get(cleared, copies, states),
                           states, tolerance_value)
         IN  Scan(i + 1, [cleared EXCEPT ![i + 1] = ok], copies, states,
                  tolerance_value)

TolInit ==
    /\ t_phase = "none"
    /\ t_in = [eq |-> << >>, tolerance_value |-> 0, iterations |-> 0,
               threads |-> 0, states |-> << >>]
    /\ seq_states = << >>
    /\ seq_temp = 0
    /\ seq_i = 0
    /\ seq_s = 0
    /\ seq_accept = << >>
    /\ par_states = << >>
    /\ par_copies = << >>
    /\ par_apply = << >>
    /\ par_temp = 0
    /\ par_bar = barrier(0)
    /\ par_pc = << >>
    /\ par_r = << >>
    /\ par_gen = << >>
    /\ par_accept = << >>
    /\ par_m_bar = barrier(0)

\* operator(): basic_layout has given the node the same position in every
\* keyframe; the sequential tolerance pass starts on these keyframes
LayoutCall ==
    /\ t_phase = "none"
    /\ \E size \in 1 .. MaxKeyframes :
       \E eq \in [1 .. size -> Equilibria] :
       \E base \in BasePositions :
       \E tau \in 1 .. MaxTolerance :
       \E iterations \in 1 .. MaxIterations :
       \E threads \in 1 .. MaxThreads :
          /\ t_in' = [eq |-> eq, tolerance_value |-> tau,
                      iterations |-> iterations, threads |-> threads,
                      states |-> [s \in 1 .. size |-> base]]
          /\ seq_states' = [s \in 1 .. size |-> base]
          /\ seq_accept' = [r \in 1 .. iterations |-> {}]
    /\ seq_temp' = StartTemperature
    /\ seq_i' = 0
    /\ seq_s' = 0
    /\ t_phase' = "seq"
    /\ UNCHANGED parVars
    /\ UNCHANGED tolOthers

\* foresighted_layout::tolerance: one pass of the body of the inner loop,
\* and the end of the round when s was the last keyframe
SeqStep ==
    /\ t_phase = "seq"
    /\ seq_i < t_in.iterations
    /\ LET s == seq_s
           copy == iteration(seq_states[s + 1], t_in.eq[s + 1], seq_temp)
           ok == Accepts(copy, s, seq_states, seq_states, t_in.tolerance_value)
       IN  /\ seq_states' = IF ok THEN [seq_states EXCEPT ![s + 1] = copy]
                            ELSE seq_states
           /\ seq_accept' = IF ok
                            THEN [seq_accept EXCEPT ![seq_i + 1] = @ \cup {s}]
                            ELSE seq_accept
           /\ IF s + 1 < Len(seq_states)
              THEN /\ seq_s' = s + 1
                   /\ UNCHANGED << seq_i, seq_temp >>
              ELSE /\ seq_s' = 0
                   /\ seq_i' = seq_i + 1
                   /\ seq_temp' = anneal(seq_temp)
    /\ UNCHANGED << t_phase, t_in >>
    /\ UNCHANGED parVars
    /\ UNCHANGED tolOthers

\* parallel_foresighted_layout::tolerance on the same keyframes, up to the
\* launch of the jobs by for_each_interleaved
ParCall ==
    /\ t_phase = "seq"
    /\ seq_i = t_in.iterations
    /\ t_phase' = "par"
    /\ par_temp' = StartTemperature
    /\ par_bar' = barrier(t_in.threads)
    /\ par_states' = t_in.states
    /\ par_copies' = t_in.states
    /\ par_apply' = [i \in DOMAIN t_in.states |-> FALSE]
    /\ par_pc' = [t \in 0 .. (t_in.threads - 1) |-> "reconcile"]
    /\ par_r' = [t \in 0 .. (t_in.threads - 1) |-> 0]
    /\ par_gen' = [t \in 0 .. (t_in.threads - 1) |-> 0]
    /\ par_accept' = [r \in 1 .. t_in.iterations |-> {}]
    /\ par_m_bar' = barrier(t_in.threads)
    /\ UNCHANGED t_in
    /\ UNCHANGED seqVars
    /\ UNCHANGED tolOthers

\* the job of thread t: the first inner loop, on the thread's own indices
ParReconcile(t) ==
    /\ t_phase = "par"
    /\ par_pc[t] = "reconcile"
    /\ LET own == Indices(t, t_in.threads, Len(par_states))
       IN  /\ par_states' = [i \in DOMAIN par_states |->
                                IF (i - 1) \in own /\ par_apply[i]
                                THEN par_copies[i] ELSE par_states[i]]
           /\ par_copies' = [i \in DOMAIN par_copies |->
                                IF (i - 1) \in own /\ ~par_apply[i]
                                THEN par_states[i] ELSE par_copies[i]]
    /\ par_pc' = [par_pc EXCEPT ![t] = "iterate"]
    /\ UNCHANGED << t_phase, t_in, par_apply, par_temp, par_bar, par_r,
                    par_gen, par_accept >>
    /\ UNCHANGED par_m_bar
    /\ UNCHANGED seqVars
    /\ UNCHANGED tolOthers

\* the job of thread t: the second inner loop, on the thread's own indices
ParIterate(t) ==
    /\ t_phase = "par"
    /\ par_pc[t] = "iterate"
    /\ LET own == Indices(t, t_in.threads, Len(par_states))
       IN  par_copies' = [i \in DOMAIN par_copies |->
                             IF (i - 1) \in own
                             THEN iteration(par_copies[i], t_in.eq[i], par_temp)
                             ELSE par_copies[i]]
    /\ par_pc' = [par_pc EXCEPT ![t] = "bar1"]
    /\ UNCHANGED << t_phase, t_in, par_states, par_apply, par_temp, par_bar,
                    par_r, par_gen, par_accept >>
    /\ UNCHANGED par_m_bar
    /\ UNCHANGED seqVars
    /\ UNCHANGED tolOthers

\* where thread t goes on after its first or second bar.wait() of a round
AfterBar(t, pc, r) ==
    IF pc \in {"bar1", "bar1_wait"}
    THEN [pc |-> IF t = 0 THEN "scan" ELSE "bar2", r |-> r]
    ELSE [pc |-> IF r + 1 < t_in.iterations THEN "reconcile" ELSE "finished",
          r |-> r + 1]

\* the job of thread t: bar.wait(), the body of wait() under the mutex
ParBarEnter(t) ==
    /\ t_phase = "par"
    /\ par_pc[t] \in {"bar1", "bar2"}
    /\ par_gen' = [par_gen EXCEPT ![t] = par_bar.m_gen]
    /\ par_bar' = Arrive(par_bar)
    /\ IF IsLastArriver(par_bar)
       THEN /\ par_pc' = [par_pc EXCEPT ![t] = AfterBar(t, @, par_r[t]).pc]
            /\ par_r' = [par_r EXCEPT ![t] = AfterBar(t, par_pc[t], @).r]
       ELSE /\ par_pc' = [par_pc EXCEPT ![t] =
                             IF @ = "bar1" THEN "bar1_wait" ELSE "bar2_wait"]
            /\ par_r' = par_r
    /\ UNCHANGED << t_phase, t_in, par_states, par_copies, par_apply,
                    par_temp, par_accept >>
    /\ UNCHANGED par_m_bar
    /\ UNCHANGED seqVars
    /\ UNCHANGED tolOthers

\* the job of thread t: it wakes in bar.wait() with the predicate true
ParBarWake(t) ==
    /\ t_phase = "par"
    /\ par_pc[t] \in {"bar1_wait", "bar2_wait"}
    /\ WaitPredicate(par_gen[t], par_bar)
    /\ par_pc' = [par_pc EXCEPT ![t] = AfterBar(t, @, par_r[t]).pc]
    /\ par_r' = [par_r EXCEPT ![t] = AfterBar(t, par_pc[t], @).r]
    /\ UNCHANGED << t_phase, t_in, par_states, par_copies, par_apply,
                    par_temp, par_bar, par_gen, par_accept >>
    /\ UNCHANGED par_m_bar
    /\ UNCHANGED seqVars
    /\ UNCHANGED tolOthers

\* the job of thread 0 (begin == 0): the scan that sets apply, and the
\* cooling of temp
ParScan ==
    /\ t_phase = "par"
    /\ par_pc[0] = "scan"
    /\ par_apply' = Scan(0, par_apply, par_copies, par_states,
                         t_in.tolerance_value)
    /\ par_accept' = [par_accept EXCEPT ![par_r[0] + 1] =
                         { i \in 0 .. (Len(par_states) - 1) : par_apply'[i + 1] }]
    /\ par_temp' = anneal(par_temp)
    /\ par_pc' = [par_pc EXCEPT ![0] = "bar2"]
    /\ UNCHANGED << t_phase, t_in, par_states, par_copies, par_bar, par_r,
                    par_gen >>
    /\ UNCHANGED par_m_bar
    /\ UNCHANGED seqVars
    /\ UNCHANGED tolOthers

\* the job of thread t has returned: m_bar.wait() of perform() (thread 0,
\* the caller) or of thread_func (the workers)
ParPoolEnter(t) ==
    /\ t_phase = "par"
    /\ par_pc[t] = "finished"
    /\ par_gen' = [par_gen EXCEPT ![t] = par_m_bar.m_gen]
    /\ par_m_bar' = Arrive(par_m_bar)
    /\ par_pc' = [par_pc EXCEPT ![t] =
                     IF IsLastArriver(par_m_bar) THEN "returned"
                     ELSE "pool_wait"]
    /\ UNCHANGED << t_phase, t_in, par_states, par_copies, par_apply,
                    par_temp, par_bar, par_r, par_accept >>
    /\ UNCHANGED seqVars
    /\ UNCHANGED tolOthers

\* thread t wakes in m_bar.wait() with the predicate true; a worker may do
\* so after perform() has returned in the caller
ParPoolWake(t) ==
    /\ t_phase \in {"par", "done"}
    /\ par_pc[t] = "pool_wait"
    /\ WaitPredicate(par_gen[t], par_m_bar)
    /\ par_pc' = [par_pc EXCEPT ![t] = "returned"]
    /\ UNCHANGED << t_phase, t_in, par_states, par_copies, par_apply,
                    par_temp, par_bar, par_r, par_gen, par_accept,
                    par_m_bar >>
    /\ UNCHANGED seqVars
    /\ UNCHANGED tolOthers

\* m_bar.wait() has returned in the caller: perform() and with it the
\* parallel pass return
ParReturn ==
    /\ t_phase = "par"
    /\ par_pc[0] = "returned"
    /\ t_phase' = "done"
    /\ UNCHANGED t_in
    /\ UNCHANGED parVars
    /\ UNCHANGED seqVars
    /\ UNCHANGED tolOthers

\* mutant: only the threads that own an index run the job
ParThreadsWithIndex ==
    IF t_phase = "par"
    THEN { t \in DOMAIN par_pc :
             Indices(t, t_in.threads, Len(par_states)) # {} }
    ELSE {}

\* the threads of the pool: for_each_interleaved gives every one of them the
\* job, whether it owns an index or not
ParThreads == IF t_phase = "par" THEN DOMAIN par_pc ELSE {}

JobReconcile == \E t \in ParThreads : ParReconcile(t)
JobIterate == \E t \in ParThreads : ParIterate(t)
JobBarEnter == \E t \in ParThreads : ParBarEnter(t)
JobBarWake == \E t \in ParThreads : ParBarWake(t)
JobPoolEnter == \E t \in ParThreads : ParPoolEnter(t)
JobPoolWake == \E t \in DOMAIN par_pc : ParPoolWake(t)

TolNext ==
    \/ LayoutCall
    \/ SeqStep
    \/ ParCall
    \/ JobReconcile
    \/ JobIterate
    \/ JobBarEnter
    \/ JobBarWake
    \/ ParScan
    \/ JobPoolEnter
    \/ JobPoolWake
    \/ ParReturn

(***************************************************************************)
(* C7: the parallel pass produces the result of the sequential pass: when  *)
(* both have returned, every round accepted the same set of keyframes and  *)
(* the keyframes hold the same layouts.                                    *)
(***************************************************************************)
C7_ParallelEqualsSequential ==
    t_phase = "done" =>
        /\ par_accept = seq_accept
        /\ par_states = seq_states

\* the two passes accept the same keyframes in every round
SameAcceptancePattern == t_phase = "done" => par_accept = seq_accept

\* what the parallel pass does return: the keyframes of the sequential pass
\* with the acceptances of the last round not applied
RECURSIVE SeqRounds(_, _, _, _)
SeqRounds(states, temp, rounds, s) ==
    IF rounds = 0 THEN states
    ELSE LET copy == iteration(states[s + 1], t_in.eq[s + 1], temp)
             ok == Accepts(copy, s, states, states, t_in.tolerance_value)
             next == IF ok THEN [states EXCEPT ![s + 1] = copy] ELSE states
         IN  IF s + 1 < Len(states)
             THEN SeqRounds(next, temp, rounds, s + 1)
             ELSE SeqRounds(next, anneal(temp), rounds - 1, 0)

ParallelLagsOneRound ==
    t_phase = "done" =>
        par_states = SeqRounds(t_in.states, StartTemperature,
                               t_in.iterations - 1, 0)

(***************************************************************************)
(* C8: a refined copy replaces states[s] only if it is within the          *)
(* tolerance of states[s-1] as already updated in the round and of         *)
(* states[s+1] as not yet updated, else states[s] stays as it is; after a  *)
(* full round every keyframe accepted in it is within the tolerance of its *)
(* left neighbour.                                                         *)
(***************************************************************************)
\* the layout x of keyframe s (0-based) is within the tolerance of the
\* layouts lefts and rights hold for its neighbours
WithinTolerance(x, s, lefts, rights) ==
    /\ s > 0 => distance(x, lefts[s]) < t_in.tolerance_value
    /\ s < Len(rights) - 1 => distance(x, rights[s + 2]) < t_in.tolerance_value

\* a step of the sequential pass changes no keyframe but s, and changes s
\* only to a layout within the tolerance of both neighbours
SeqStepWithinTolerance ==
    SeqStep =>
        /\ \A u \in DOMAIN seq_states :
              u # seq_s + 1 => seq_states'[u] = seq_states[u]
        /\ (seq_s \in seq_accept'[seq_i + 1]) =>
              /\ seq_states'[seq_s + 1] =
                    iteration(seq_states[seq_s + 1], t_in.eq[seq_s + 1], seq_temp)
              /\ WithinTolerance(seq_states'[seq_s + 1], seq_s,
                                 seq_states', seq_states')
        /\ (seq_s \notin seq_accept'[seq_i + 1]) =>
              seq_states'[seq_s + 1] = seq_states[seq_s + 1]

\* the scan of the parallel pass sets apply[i] only for a copy within the
\* tolerance of get(i-1) and of states[i+1]
ParScanWithinTolerance ==
    ParScan =>
        \A i \in 0 .. (Len(par_states) - 1) :
            par_apply'[i + 1] =>
                WithinTolerance(par_copies'[i + 1], i,
                                Get(par_apply', par_copies', par_states'),
                                par_states')

\* the parallel pass replaces states[i] only by a copy the last scan accepted
ParReplacesAccepted ==
    (\E t \in ParThreads : ParReconcile(t)) =>
        \A i \in DOMAIN par_states :
            par_states'[i] # par_states[i] =>
                par_apply[i] /\ par_states'[i] = par_copies[i]

\* after a full round of the sequential pass
SeqRoundWithinTolerance ==
    (t_phase \in {"seq", "par", "done"} /\ seq_s = 0 /\ seq_i >= 1) =>
        \A s \in seq_accept[seq_i] :
            s > 0 => distance(seq_states[s + 1], seq_states[s])
                        < t_in.tolerance_value

\* after a full round of the parallel pass: thread 0 has scanned and no
\* thread has started the next round
ParRoundWithinTolerance ==
    (t_phase \in {"par", "done"}
        /\ \A t \in DOMAIN par_pc :
              par_pc[t] \in {"bar2", "bar2_wait", "finished", "pool_wait",
                              "returned"}) =>
        \A i \in 1 .. (Len(par_states) - 1) :
            par_apply[i + 1] =>
                /\ distance(par_states[i + 1], par_states[i])
                      < t_in.tolerance_value
                /\ LET get == Get(par_apply, par_copies, par_states)
                   IN  distance(get[i + 1], get[i]) < t_in.tolerance_value

\* C8: in both passes a keyframe is replaced only by a refined copy that was,
\* when accepted, within the tolerance of its left neighbour as updated in the
\* round and of its right neighbour as not yet updated, and is left unchanged
\* otherwise; after every full round every keyframe accepted in it is within
\* the tolerance of its left neighbour.
C8_AcceptedWithinTolerance ==
    /\ [](SeqRoundWithinTolerance /\ ParRoundWithinTolerance)
    /\ [][SeqStepWithinTolerance /\ ParScanWithinTolerance
            /\ ParReplacesAccepted]_vars

\* both passes have run two rounds on three keyframes; in a round one
\* keyframe was accepted and another refused, and a layout has changed
C8_Witness ==
    /\ t_phase = "done"
    /\ Len(seq_states) = 3
    /\ t_in.iterations = 2
    /\ seq_states # t_in.states
    /\ par_states # t_in.states
    /\ \E r \in 1 .. 2 :
          /\ seq_accept[r] # {} /\ seq_accept[r] # {0, 1, 2}
          /\ par_accept[r] # {} /\ par_accept[r] # {0, 1, 2}
          /\ \E s \in seq_accept[r] : s > 0

(***************************************************************************)
(* The memory the jobs of the parallel pass share, and what each thread    *)
(* reads and writes in the part of its job it is about to run.  apply is   *)
(* a std::vector<bool>, whose elements share words: it is one location.    *)
(***************************************************************************)
Loc(v, i) == [v |-> v, i |-> i]

AllIndices == 0 .. (Len(par_states) - 1)

\* the indices thread t owns
Own(t) == Indices(t, t_in.threads, Len(par_states))

\* what thread t writes in the part it is about to run
Writes(t) ==
    CASE par_pc[t] = "reconcile" ->
            { Loc("states", i) : i \in Own(t) } \cup { Loc("copies", i) : i \in Own(t) }
      [] par_pc[t] = "iterate" -> { Loc("copies", i) : i \in Own(t) }
      [] par_pc[t] = "scan" -> { Loc("apply", 0), Loc("temp", 0) }
      [] OTHER -> {}

\* what thread t reads in the part it is about to run
Reads(t) ==
    CASE par_pc[t] = "reconcile" ->
            { Loc("states", i) : i \in Own(t) } \cup { Loc("copies", i) : i \in Own(t) }
               \cup (IF Own(t) = {} THEN {} ELSE { Loc("apply", 0) })
      [] par_pc[t] = "iterate" ->
            { Loc("copies", i) : i \in Own(t) }
               \cup (IF Own(t) = {} THEN {} ELSE { Loc("temp", 0) })
      [] par_pc[t] = "scan" ->
            { Loc("states", i) : i \in AllIndices }
               \cup { Loc("copies", i) : i \in AllIndices }
               \cup { Loc("apply", 0), Loc("temp", 0) }
      [] OTHER -> {}

\* no thread is about to write what another thread is about to read or write
NoConflictingAccess ==
    t_phase = "par" =>
        \A t \in DOMAIN par_pc : \A u \in DOMAIN par_pc :
            t # u => Writes(t) \cap (Reads(u) \cup Writes(u)) = {}

\* a step changes states[i] and copies[i] only in a job of the thread that
\* owns i, and apply and temp only in the scan of thread 0
WritesByOwner ==
    /\ \A t \in ParThreads :
          (ParReconcile(t) \/ ParIterate(t)) =>
              /\ \A i \in AllIndices :
                    (par_states'[i + 1] # par_states[i + 1]
                        \/ par_copies'[i + 1] # par_copies[i + 1])
                    => (i \in Own(t) /\ i % t_in.threads = t)
              /\ par_apply' = par_apply
              /\ par_temp' = par_temp
    /\ (t_phase = "par" /\ (par_apply' # par_apply \/ par_temp' # par_temp)) =>
          /\ par_pc[0] = "scan"
          /\ par_pc'[0] = "bar2"
          /\ \A u \in DOMAIN par_pc :
                u # 0 => par_pc[u] \in {"bar1_wait", "bar2", "bar2_wait"}

\* C11: in the parallel tolerance pass states[i] and copies[i] are written
\* only by the thread that owns i (i mod N), apply and the temperature only by
\* thread 0 between the two barriers of a round, and no thread can read or
\* write a location while another thread can write it.
C11_NoDataRace == []NoConflictingAccess /\ [][WritesByOwner]_vars

\* two threads that own keyframes are in their jobs at once, in a round that
\* follows an acceptance: one about to reconcile, the other about to iterate
C11_Witness ==
    /\ t_phase = "par"
    /\ \E t \in DOMAIN par_pc : \E u \in DOMAIN par_pc :
          /\ t # u
          /\ par_pc[t] = "reconcile" /\ Own(t) # {}
          /\ par_pc[u] = "iterate" /\ Own(u) # {}
          /\ par_r[t] = 1
    /\ \E i \in DOMAIN par_apply : par_apply[i]

(***************************************************************************)
(* SpecPoolFair: the pool under a scheduler that lets every thread that    *)
(* can take a step take it in the end.  The owner's choice to call         *)
(* perform() or to destroy the pool is not forced.                         *)
(***************************************************************************)
PoolFairness ==
    /\ WF_vars(MainJob) /\ WF_vars(MainJobReturn)
    /\ WF_vars(MainBarEnter) /\ WF_vars(MainBarWake)
    /\ WF_vars(Joined)
    /\ \A i \in PoolWorkers :
          /\ WF_vars(WorkerRun(i)) /\ WF_vars(WorkerJob(i))
          /\ WF_vars(WorkerJobReturn(i))
          /\ WF_vars(WorkerBarEnter(i)) /\ WF_vars(WorkerBarWake(i))

\* once m_end is set no job is started
NoJobAfterEnd == m_end => p_started' = p_started

\* quit() is called only outside perform(), with every job finished
QuitOutsidePerform ==
    Quit => \A i \in PoolSlots : p_finished[i] = p_expected[i]

\* C12: destroying the pool while no perform() is in progress completes in
\* the end: quit() sets m_end, every worker wakes, sees m_end and leaves its
\* loop without running its job, and the joins return.
C12_QuitCompletes ==
    /\ (p_main = "join") ~> (p_main = "destroyed")
    /\ [](p_main = "destroyed" =>
            m_end /\ \A i \in PoolWorkers : p_worker[i] = "exited")
    /\ [][NoJobAfterEnd /\ QuitOutsidePerform]_vars

\* the pool was destroyed after two perform() calls with jobs
C12_Witness ==
    /\ p_main = "destroyed"
    /\ p_calls = 2
    /\ \A i \in PoolSlots : p_finished[i] = 2
    /\ \A i \in PoolWorkers : p_worker[i] = "exited"

(***************************************************************************)
(* SpecPoolFailure: the pool with jobs that may fail.  perform() and       *)
(* thread_func have no handler: an exception of the owner's job leaves     *)
(* perform() before m_bar.wait(); an exception of a worker's job leaves    *)
(* the thread function, which is std::terminate for the process.           *)
(***************************************************************************)
\* the owner's job throws: the exception leaves perform()
MainJobThrows ==
    /\ p_main = "running"
    /\ p_main' = "idle"
    /\ UNCHANGED << m_params, m_end, m_bar, p_worker, p_gen, p_calls,
                    p_expected, p_started, p_finished >>
    /\ UNCHANGED poolOthers

\* the job of worker i throws: the exception leaves thread_func and the
\* process is terminated
WorkerJobThrows(i) ==
    /\ p_worker[i] = "running"
    /\ p_main # "aborted"
    /\ p_worker' = [j \in PoolWorkers |-> "aborted"]
    /\ p_main' = "aborted"
    /\ UNCHANGED << m_params, m_end, m_bar, p_gen, p_calls, p_expected,
                    p_started, p_finished >>
    /\ UNCHANGED poolOthers

WorkersJobThrows == \E i \in PoolWorkers : WorkerJobThrows(i)

PoolFailureNext ==
    \/ PoolNext
    \/ MainJobThrows
    \/ WorkersJobThrows

\* some step of worker i is possible
WorkerCanStep(i) ==
    \/ p_worker[i] = "cv_wait" /\ m_params[i].run
    \/ p_worker[i] \in {"unlocked", "running", "bar"}
    \/ p_worker[i] = "bar_wait" /\ WaitPredicate(p_gen[i], m_bar)

\* C13: a failure of a job during perform() terminates the pool cleanly: the
\* process is not terminated, and in the destruction that follows every worker
\* that has not left its loop can still take a step, so that none is blocked
\* for ever on the barrier or on the wait for its flag and the joins return.
C13_FailureTerminatesCleanly ==
    /\ p_main # "aborted"
    /\ p_main = "join" =>
          \A i \in PoolWorkers : p_worker[i] = "exited" \/ WorkerCanStep(i)

(***************************************************************************)
(* live_set.h: class detail::live_set, a vector of times.  The times are   *)
(* added in ascending order, and the set operations are those of           *)
(* std::set_intersection and std::set_union on sorted ranges.              *)
(***************************************************************************)
RECURSIVE set_intersection(_, _)
set_intersection(a, b) ==
    IF a = << >> \/ b = << >> THEN << >>
    ELSE IF Head(a) < Head(b) THEN set_intersection(Tail(a), b)
    ELSE IF Head(b) < Head(a) THEN set_intersection(a, Tail(b))
    ELSE << Head(a) >> \o set_intersection(Tail(a), Tail(b))

RECURSIVE set_union(_, _)
set_union(a, b) ==
    IF a = << >> THEN b
    ELSE IF b = << >> THEN a
    ELSE IF Head(a) < Head(b) THEN << Head(a) >> \o set_union(Tail(a), b)
    ELSE IF Head(b) < Head(a) THEN << Head(b) >> \o set_union(a, Tail(b))
    ELSE << Head(a) >> \o set_union(Tail(a), Tail(b))

\* live_set::intersection
intersection(a, b) == set_intersection(a, b)

\* live_set::join (m_values = setunion(other).m_values)
join(a, b) == set_union(a, b)

\* live_set::empty
empty(a) == a = << >>

\* the times of a live_set as a set
Values(a) == { a[i] : i \in DOMAIN a }

(***************************************************************************)
(* partitions.h, mapped_graph.h: a mapped_graph is a graph of node and     *)
(* edge partitions (here its two vectors) with the maps m_node_map and     *)
(* m_edge_map from an id to the id of its partition.                       *)
(***************************************************************************)
\* a node of a keyframe or of the supergraph, with its position
state_node(id) == [id |-> id, pos |-> 0]

state_edge(id, one, two) == [id |-> id, one |-> one, two |-> two]

node_partition(id) == [id |-> id, pos |-> 0, live_time |-> << >>]

edge_partition(id, one, two) ==
    [id |-> id, one |-> one, two |-> two, live_time |-> << >>]

mapped_graph ==
    [nodes |-> << >>, edges |-> << >>, m_node_map |-> EmptyMap,
     m_edge_map |-> EmptyMap]

\* the ids of the elements of a vector
IdsOf(vec) == { vec[i].id : i \in DOMAIN vec }

\* the index of the element of a given id
IndexOf(vec, id) == CHOOSE i \in DOMAIN vec : vec[i].id = id

\* graph::push_node and graph::push_edge on ids that are new or not: an
\* element whose id is present is not added again
Emplace(vec, item) == IF item.id \in IdsOf(vec) THEN vec ELSE Append(vec, item)

RECURSIVE EmplaceAll(_, _)
EmplaceAll(vec, items) ==
    IF items = << >> THEN vec
    ELSE EmplaceAll(Emplace(vec, Head(items)), Tail(items))

NodeTargetNoMap(mg, id) == id

\* mapped_graph::node_at: the id the lookup ends at
NodeTarget(mg, id) ==
    IF id \in DOMAIN mg.m_node_map THEN mg.m_node_map[id] ELSE id

\* mapped_graph::node_at returns (does not throw std::out_of_range)
NodeResolves(mg, id) == NodeTarget(mg, id) \in IdsOf(mg.nodes)

node_at(mg, id) == mg.nodes[IndexOf(mg.nodes, NodeTarget(mg, id))]

\* mapped_graph::edge_at
EdgeTarget(mg, id) ==
    IF id \in DOMAIN mg.m_edge_map THEN mg.m_edge_map[id] ELSE id

EdgeResolves(mg, id) == EdgeTarget(mg, id) \in IdsOf(mg.edges)

edge_at(mg, id) == mg.edges[IndexOf(mg.edges, EdgeTarget(mg, id))]

\* mapped_graph::map_node, mapped_graph::map_edge
map_node(mg, n, target) ==
    [mg EXCEPT !.m_node_map = MapEmplace(@, n, target)]

map_edge(mg, e, target) ==
    [mg EXCEPT !.m_edge_map = MapEmplace(@, e, target)]

\* mapped_graph::clear_edges
clear_edges(mg) == [mg EXCEPT !.edges = << >>, !.m_edge_map = EmptyMap]

(***************************************************************************)
(* foresighted_layout.h: the base layout.                                  *)
(***************************************************************************)
\* the times t = 0 .. size-1 at which an id is in the keyframe, as the loop
\* over t adds them
LiveTimesOf(states, id, Ids(_)) ==
    LET Present(t) == id \in Ids(states[t + 1])
    IN SelectSeq([t \in 1 .. Len(states) |-> t - 1], Present)

NodeIdsIn(state) == IdsOf(state.nodes)
EdgeIdsIn(state) == IdsOf(state.edges)

node_live_times(states) ==
    [id \in UNION { NodeIdsIn(states[t]) : t \in DOMAIN states } |->
        LiveTimesOf(states, id, NodeIdsIn)]

edge_live_times(states) ==
    [id \in UNION { EdgeIdsIn(states[t]) : t \in DOMAIN states } |->
        LiveTimesOf(states, id, EdgeIdsIn)]

\* the nodes of a keyframe as fresh nodes of the supergraph
FreshNodes(nodes) == [i \in DOMAIN nodes |-> state_node(nodes[i].id)]

RECURSIVE SupergraphFrom(_, _)
SupergraphFrom(supergraph, animation) ==
    IF animation = << >> THEN supergraph
    ELSE SupergraphFrom(
            [nodes |-> EmplaceAll(supergraph.nodes,
                                  FreshNodes(Head(animation).nodes)),
             edges |-> EmplaceAll(supergraph.edges, Head(animation).edges)],
            Tail(animation))

calculate_supergraph(animation) ==
    SupergraphFrom([nodes |-> << >>, edges |-> << >>], animation)

\* the partitions a node can join: those whose live time does not meet the
\* node's
FreePartitionsAny(gap, live) == DOMAIN gap.nodes

FreePartitions(gap, live) ==
    { i \in DOMAIN gap.nodes : empty(intersection(gap.nodes[i].live_time, live)) }

\* one round of the first loop of calculate_gap
GapNode(gap, id, nodes_live) ==
    LET free == FreePartitions(gap, nodes_live[id])
    IN IF free # {}
       THEN LET i == CHOOSE x \in free : \A y \in free : x <= y
            IN map_node(
                 [gap EXCEPT !.nodes[i].live_time = join(@, nodes_live[id])],
                 id, gap.nodes[i].id)
       ELSE [gap EXCEPT !.nodes =
                Emplace(@, [node_partition(id) EXCEPT
                              !.live_time = join(<< >>, nodes_live[id])])]

RECURSIVE GapNodes(_, _, _)
GapNodes(gap, nodes, nodes_live) ==
    IF nodes = << >> THEN gap
    ELSE GapNodes(GapNode(gap, Head(nodes).id, nodes_live), Tail(nodes),
                  nodes_live)

\* one round of the second loop of calculate_gap
GapEdge(gap, e, edges_live) ==
    LET one == node_at(gap, e.one).id
        two == node_at(gap, e.two).id
    IN [gap EXCEPT !.edges =
            Emplace(@, [edge_partition(e.id, one, two) EXCEPT
                          !.live_time = join(<< >>, edges_live[e.id])])]

RECURSIVE GapEdges(_, _, _)
GapEdges(gap, edges, edges_live) ==
    IF edges = << >> THEN gap
    ELSE GapEdges(GapEdge(gap, Head(edges), edges_live), Tail(edges),
                  edges_live)

\* gap.node_at throws for an edge of the supergraph
GapThrows(supergraph, nodes_live) ==
    LET gap == GapNodes(mapped_graph, supergraph.nodes, nodes_live)
    IN \E i \in DOMAIN supergraph.edges :
          \/ ~ NodeResolves(gap, supergraph.edges[i].one)
          \/ ~ NodeResolves(gap, supergraph.edges[i].two)

calculate_gap(supergraph, nodes_live, edges_live) ==
    GapEdges(GapNodes(mapped_graph, supergraph.nodes, nodes_live),
             supergraph.edges, edges_live)
\* same_edge of calculate_rgap: a and b are between the same nodes
same_edge(a, b) ==
    \/ (a.one = b.one /\ a.two = b.two)
    \/ (a.one = b.two /\ a.two = b.one)

EdgeFitsAlways(current_partition, edge_k) == TRUE

\* the live time of edge_k does not meet that of the partition
EdgeFits(current_partition, edge_k) ==
    empty(intersection(current_partition.live_time, edge_k.live_time))

\* the inner loop of calculate_rgap over k = from .. size-1 (indices from 1
\* here); st holds rgap and the set removed
RECURSIVE RgapMerge(_, _, _, _)
RgapMerge(gap, st, i, k) ==
    IF k > Len(gap.edges) THEN st
    ELSE LET edge_i == gap.edges[i]
             edge_k == gap.edges[k]
             c == IndexOf(st.rgap.edges, edge_i.id)
             current_partition == st.rgap.edges[c]
         IN IF /\ edge_k.id \notin st.removed
               /\ same_edge(edge_i, edge_k)
               /\ EdgeFits(current_partition, edge_k)
            THEN RgapMerge(gap,
                   [rgap |-> map_edge(
                       [st.rgap EXCEPT !.edges[c].live_time =
                            join(@, edge_k.live_time)],
                       edge_k.id, current_partition.id),
                    removed |-> st.removed \cup {edge_k.id}],
                   i, k + 1)
            ELSE RgapMerge(gap, st, i, k + 1)

\* the outer loop of calculate_rgap
RECURSIVE RgapFrom(_, _, _)
RgapFrom(gap, st, i) ==
    IF i > Len(gap.edges) THEN st
    ELSE LET edge_i == gap.edges[i]
         IN IF edge_i.id \in st.removed THEN RgapFrom(gap, st, i + 1)
            ELSE LET edges == Emplace(st.rgap.edges,
                                edge_partition(edge_i.id, edge_i.one, edge_i.two))
                     c == IndexOf(edges, edge_i.id)
                     added == [st EXCEPT !.rgap.edges =
                                 [edges EXCEPT ![c].live_time =
                                     join(@, edge_i.live_time)]]
                 IN RgapFrom(gap, RgapMerge(gap, added, i, i + 1), i + 1)

calculate_rgap(gap) ==
    RgapFrom(gap, [rgap |-> clear_edges(gap), removed |-> {}], 1).rgap

\* m_static_layout(rgap.graph(), width, height): the static layout gives
\* every node of the graph a position; here the k-th node is put at k, so
\* that the nodes of the graph and a node that was never placed (at 0) are
\* told apart by their position
static_layout(nodes) == [i \in DOMAIN nodes |-> [nodes[i] EXCEPT !.pos = i]]

\* the keyframe nodes (t, i) in the order of the last loops of basic_layout
Before(a, b) == a[1] < b[1] \/ (a[1] = b[1] /\ a[2] < b[2])

\* the keyframe nodes for which rgap.node_at throws std::out_of_range
Unresolved(states, rgap) ==
    { ti \in UNION { { << t, i >> : i \in DOMAIN states[t].nodes } :
                     t \in DOMAIN states } :
        ~ NodeResolves(rgap, states[ti[1]].nodes[ti[2]].id) }

\* the last loops of basic_layout: every keyframe node takes the position
\* of the node its id resolves to, up to the first that does not resolve
use_results(states, rgap) ==
    LET fails == Unresolved(states, rgap)
        Reached(t, i) ==
            \A f \in fails : Before(<< t, i >>, f)
    IN [t \in DOMAIN states |->
          [states[t] EXCEPT !.nodes =
              [i \in DOMAIN states[t].nodes |->
                  IF Reached(t, i)
                  THEN [states[t].nodes[i] EXCEPT
                          !.pos = node_at(rgap, states[t].nodes[i].id).pos]
                  ELSE states[t].nodes[i]]]]

(***************************************************************************)
(* SpecLayout: keyframes are built, then basic_layout runs on them.        *)
(***************************************************************************)
LayoutInit ==
    /\ l_pc = "start"
    /\ l_states = << >>
    /\ l_nodes_live = EmptyMap
    /\ l_edges_live = EmptyMap
    /\ l_super = [nodes |-> << >>, edges |-> << >>]
    /\ l_gap = mapped_graph
    /\ l_rgap = mapped_graph
    /\ l_thrown = "none"
    /\ l_divisors = << >>

\* the elements of a set of numbers in ascending order
RECURSIVE Ascending(_)
Ascending(S) ==
    IF S = {} THEN << >>
    ELSE LET m == CHOOSE x \in S : \A y \in S : x <= y
         IN << m >> \o Ascending(S \ {m})

\* the pairs of nodes an edge may connect; an edge of odd id names its ends
\* in the other order
LayoutPairs == { p \in LayoutNodeIds \X LayoutNodeIds : p[1] < p[2] }

EndsOfEdge(e, ends) ==
    IF e % 2 = 0 THEN ends[e] ELSE << ends[e][2], ends[e][1] >>

\* the keyframe of time t: the nodes and edges that live at t
KeyframeAt(t, nlive, ends, elive) ==
    LET ns == Ascending({ n \in LayoutNodeIds : t \in nlive[n] })
        es == Ascending({ e \in LayoutEdgeIds : t \in elive[e] })
    IN [nodes |-> [i \in DOMAIN ns |-> state_node(ns[i])],
        edges |-> [i \in DOMAIN es |->
                     state_edge(es[i], EndsOfEdge(es[i], ends)[1],
                                EndsOfEdge(es[i], ends)[2])]]

\* dgraph.states(): every node lives in some keyframe and an edge lives
\* only where both its ends do (graph::push_edge)
LayoutStates ==
    /\ l_pc = "start"
    /\ \E nlive \in [LayoutNodeIds -> (SUBSET LayoutTimes) \ {{}}],
          ends \in [LayoutEdgeIds -> LayoutPairs] :
         \E elive \in [LayoutEdgeIds -> SUBSET LayoutTimes] :
            /\ \A e \in LayoutEdgeIds :
                  elive[e] \subseteq nlive[ends[e][1]] \cap nlive[ends[e][2]]
            /\ l_states' = [t \in 1 .. MaxLayoutStates |->
                              KeyframeAt(t - 1, nlive, ends, elive)]
    /\ l_pc' = "states"
    /\ UNCHANGED << l_nodes_live, l_edges_live, l_super, l_gap, l_rgap,
                    l_thrown, l_divisors >>
    /\ UNCHANGED layoutOthers

\* foresighted_layout::basic_layout
BasicLayout ==
    /\ l_pc = "states"
    /\ LET nodes_live == node_live_times(l_states)
           edges_live == edge_live_times(l_states)
           supergraph == calculate_supergraph(l_states)
       IN /\ l_nodes_live' = nodes_live
          /\ l_edges_live' = edges_live
          /\ l_super' = supergraph
          /\ IF GapThrows(supergraph, nodes_live)
             THEN /\ l_thrown' = "out_of_range"
                  /\ UNCHANGED << l_states, l_gap, l_rgap >>
             ELSE LET gap == calculate_gap(supergraph, nodes_live, edges_live)
                      rgap == calculate_rgap(gap)
                      laid == [rgap EXCEPT !.nodes = static_layout(@)]
                  IN /\ l_gap' = gap
                     /\ l_rgap' = laid
                     /\ l_states' = use_results(l_states, laid)
                     /\ l_thrown' = IF Unresolved(l_states, laid) = {}
                                    THEN "none" ELSE "out_of_range"
    /\ l_pc' = "done"
    /\ UNCHANGED l_divisors
    /\ UNCHANGED layoutOthers

\* distance(one, two): the variable count, the divisor of the relative
\* distance
shared_count(one, two) ==
    Cardinality({ i \in DOMAIN one.nodes :
                    \E j \in DOMAIN two.nodes :
                        two.nodes[j].id = one.nodes[i].id })

\* the calls of distance() one round of tolerance() makes for keyframe s
\* (counted from 0): the keyframe before is compared for s > 0, and the
\* keyframe after only when the first operand of && is true; below holds
\* whether a distance that is a number is below tolerance_value, a NaN is
\* below nothing
Comparisons(states, s, below) ==
    LET size  == Len(states)
        left  == shared_count(states[s + 1], states[s])
        right == shared_count(states[s + 1], states[s + 2])
    IN  (IF s = 0 THEN << >>
         ELSE << [s |-> s, other |-> s - 1, count |-> left] >>)
        \o
        (IF s < size - 1 /\ (s = 0 \/ (left # 0 /\ below))
         THEN << [s |-> s, other |-> s + 1, count |-> right] >>
         ELSE << >>)

RECURSIVE RoundFrom(_, _, _)
RoundFrom(states, s, below) ==
    IF s >= Len(states) THEN << >>
    ELSE Comparisons(states, s, s \in below) \o RoundFrom(states, s + 1, below)

\* operator() with m_tolerance # 0 and m_relative_distance, after
\* basic_layout: the first round of tolerance(); an iteration moves the
\* nodes of a copy and leaves its node set alone
LayoutTolerance ==
    /\ l_pc = "done"
    /\ l_thrown = "none"
    /\ \E below \in SUBSET (1 .. Len(l_states) - 2) :
          l_divisors' = RoundFrom(l_states, 0, below)
    /\ l_pc' = "refined"
    /\ UNCHANGED << l_states, l_nodes_live, l_edges_live, l_super, l_gap,
                    l_rgap, l_thrown >>
    /\ UNCHANGED layoutOthers

LayoutNext == LayoutStates \/ BasicLayout \/ LayoutTolerance

(***************************************************************************)
(* Claims about the base layout (SpecLayout).                              *)
(***************************************************************************)
\* the nodes of the supergraph that resolve to the partition node p
Members(gap, p) ==
    { n \in IdsOf(l_super.nodes) :
        NodeResolves(gap, n) /\ node_at(gap, n).id = p }

\* the times of all members of a partition
MemberTimes(gap, p) ==
    UNION { Values(l_nodes_live[n]) : n \in Members(gap, p) }

\* two nodes are in the same keyframe
Coexist(n, m) ==
    \E t \in DOMAIN l_states :
        n \in NodeIdsIn(l_states[t]) /\ m \in NodeIdsIn(l_states[t])

GapBuilt == l_pc = "done" /\ l_thrown = "none"

\* C14: after GAP construction two distinct supergraph nodes that resolve
\* to the same partition node have disjoint live-sets, two nodes that
\* coexist in a keyframe resolve to different partition nodes, every
\* supergraph node resolves to a partition node, and the live-set of a
\* partition node is the union of the live-sets of its members
C14_GapPartitionsDisjoint ==
    GapBuilt =>
        /\ \A n \in IdsOf(l_super.nodes) : NodeResolves(l_gap, n)
        /\ \A n, m \in IdsOf(l_super.nodes) :
              (n # m /\ node_at(l_gap, n).id = node_at(l_gap, m).id) =>
                  Values(l_nodes_live[n]) \cap Values(l_nodes_live[m]) = {}
        /\ \A n, m \in IdsOf(l_super.nodes) :
              (n # m /\ Coexist(n, m)) =>
                  node_at(l_gap, n).id # node_at(l_gap, m).id
        /\ \A i \in DOMAIN l_gap.nodes :
              Values(l_gap.nodes[i].live_time)
                 = MemberTimes(l_gap, l_gap.nodes[i].id)

\* a GAP with a partition of two nodes and with two partitions
C14_Witness ==
    /\ GapBuilt
    /\ Len(l_gap.nodes) >= 2
    /\ \E i \in DOMAIN l_gap.nodes :
          Cardinality(Members(l_gap, l_gap.nodes[i].id)) >= 2

RgapBuilt == l_pc = "done" /\ l_thrown = "none"

\* the edges of the GAP that resolve to the edge r of the RGAP
Merged(r) ==
    { i \in DOMAIN l_gap.edges :
        /\ EdgeResolves(l_rgap, l_gap.edges[i].id)
        /\ edge_at(l_rgap, l_gap.edges[i].id).id = r }

\* the edge of the GAP of index i is a representative: it is an edge of the
\* RGAP, with the ends it has in the GAP, and has no alias
Representative(i) ==
    LET e == l_gap.edges[i]
    IN /\ e.id \in IdsOf(l_rgap.edges)
       /\ e.id \notin DOMAIN l_rgap.m_edge_map
       /\ l_rgap.edges[IndexOf(l_rgap.edges, e.id)].one = e.one
       /\ l_rgap.edges[IndexOf(l_rgap.edges, e.id)].two = e.two

\* the edge of the GAP of index i is an alias of an earlier representative
\* between the same two partition nodes
Aliased(i) ==
    LET e == l_gap.edges[i]
    IN /\ e.id \notin IdsOf(l_rgap.edges)
       /\ e.id \in DOMAIN l_rgap.m_edge_map
       /\ \E j \in 1 .. (i - 1) :
             /\ l_gap.edges[j].id = l_rgap.m_edge_map[e.id]
             /\ Representative(j)
             /\ { e.one, e.two } = { l_gap.edges[j].one, l_gap.edges[j].two }

\* C15: after RGAP construction every GAP edge is either a representative
\* in the RGAP or an alias, in one hop, of one earlier representative
\* between the same unordered pair of partition nodes; the edges merged into
\* a representative have pairwise disjoint live-sets and the live-set of the
\* representative is their union
C15_RgapMergesDisjointEdges ==
    RgapBuilt =>
        /\ \A i \in DOMAIN l_gap.edges :
              (Representative(i) /\ ~ Aliased(i))
                 \/ (Aliased(i) /\ ~ Representative(i))
        /\ IdsOf(l_rgap.edges) \subseteq IdsOf(l_gap.edges)
        /\ \A r \in DOMAIN l_rgap.edges :
              /\ \A i, j \in Merged(l_rgap.edges[r].id) :
                    i # j =>
                       Values(l_gap.edges[i].live_time)
                          \cap Values(l_gap.edges[j].live_time) = {}
              /\ Values(l_rgap.edges[r].live_time)
                    = UNION { Values(l_gap.edges[i].live_time) :
                                i \in Merged(l_rgap.edges[r].id) }

\* an RGAP in which an edge was merged into another, and a later edge
\* between the same two partition nodes was not, because it lives at a time
\* of the merged edge
C15_Witness ==
    /\ RgapBuilt
    /\ \E i, k \in DOMAIN l_gap.edges :
          /\ Aliased(i)
          /\ i < k
          /\ Representative(k)
          /\ same_edge(l_gap.edges[i], l_gap.edges[k])
          /\ Values(l_gap.edges[i].live_time)
                \cap Values(l_gap.edges[k].live_time) # {}

\* an RGAP that keeps two edges between the same two partition nodes, which
\* live at the same time
C15_WitnessParallel ==
    /\ RgapBuilt
    /\ \E r, q \in DOMAIN l_rgap.edges :
          r # q /\ same_edge(l_rgap.edges[r], l_rgap.edges[q])

\* the nodes of all keyframes, as pairs << t, i >> of a keyframe and an
\* index in its vector of nodes
KeyframeNodes ==
    UNION { { << t, i >> : i \in DOMAIN l_states[t].nodes } :
            t \in DOMAIN l_states }

KeyframeNode(ti) == l_states[ti[1]].nodes[ti[2]]

\* C16: after the base layout the position of every keyframe node was
\* copied from a node of the RGAP that its id resolves to, directly or
\* through one alias (basic_layout does not throw); keyframe nodes that
\* resolve to the same partition node have equal positions, and so has one
\* node id in all keyframes it is in
C16_PartitionSharesPosition ==
    l_pc = "done" =>
        /\ l_thrown = "none"
        /\ \A a \in KeyframeNodes :
              /\ NodeResolves(l_rgap, KeyframeNode(a).id)
              /\ NodeTarget(l_rgap, KeyframeNode(a).id)
                    \notin DOMAIN l_rgap.m_node_map
              /\ KeyframeNode(a).pos = node_at(l_rgap, KeyframeNode(a).id).pos
        /\ \A a, b \in KeyframeNodes :
              /\ node_at(l_rgap, KeyframeNode(a).id).id
                    = node_at(l_rgap, KeyframeNode(b).id).id
                 => KeyframeNode(a).pos = KeyframeNode(b).pos
              /\ KeyframeNode(a).id = KeyframeNode(b).id
                 => KeyframeNode(a).pos = KeyframeNode(b).pos

\* a layout in which two different nodes share a partition node and its
\* position, a third node is elsewhere, and a node is in two keyframes
C16_Witness ==
    /\ l_pc = "done"
    /\ l_thrown = "none"
    /\ \E a, b, c \in KeyframeNodes :
          /\ KeyframeNode(a).id # KeyframeNode(b).id
          /\ KeyframeNode(a).id \in DOMAIN l_rgap.m_node_map
          /\ node_at(l_rgap, KeyframeNode(a).id).id = KeyframeNode(b).id
          /\ KeyframeNode(a).pos = KeyframeNode(b).pos
          /\ KeyframeNode(c).pos # KeyframeNode(a).pos
          /\ \E d \in KeyframeNodes :
                d[1] # c[1] /\ KeyframeNode(d).id = KeyframeNode(c).id

(***************************************************************************)
(* float: a number is held as its count of units of 2^-FracBits; the       *)
(* result of an operation is the number of MantissaBits significant bits   *)
(* nearest to the exact result (ties to the even mantissa), as IEEE 754    *)
(* rounds.                                                                 *)
(***************************************************************************)
Den == 2 ^ FracBits

\* the quotient a / b (b > 0) rounded to the nearest integer, ties to even
RoundHalfEven(a, b) ==
    LET f == a \div b
        r == a % b
    IN IF 2 * r < b THEN f
       ELSE IF 2 * r > b THEN f + 1
       ELSE IF f % 2 = 0 THEN f ELSE f + 1

\* the largest j >= from with 2^j <= a / b, or from
RECURSIVE Binade(_, _, _)
Binade(a, b, from) ==
    IF a >= b * 2 ^ (from + 1) THEN Binade(a, b, from + 1) ELSE from

\* the distance of two neighbouring floats around a / b
Ulp(a, b) ==
    LET j == Binade(a, b, 0)
    IN IF j >= MantissaBits - 1 THEN 2 ^ (j - MantissaBits + 1) ELSE 1

\* the float nearest to a / b units (b > 0)
Float(a, b) ==
    IF a < 0 THEN - (RoundHalfEven(-a, b * Ulp(-a, b)) * Ulp(-a, b))
    ELSE RoundHalfEven(a, b * Ulp(a, b)) * Ulp(a, b)

\* float operator*, operator/ (y > 0), operator+ and operator-
FMul(x, y) == Float(x * y, Den)
FDiv(x, y) == Float(x * Den, y)
FAdd(x, y) == Float(x + y, 1)
FSub(x, y) == Float(x - y, 1)

\* a float literal num / den
Literal(num, den) == Float(num * Den, den)

(***************************************************************************)
(* initial_placement.h, fruchterman_reingold.h, foresighted_layout.h: the  *)
(* position of the first node of a graph.  A position is a pair.           *)
(***************************************************************************)
\* initial_placement::operator() for the node of index 0: cos(0) = 1 and
\* sin(0) = 0
initial_placement(canvas_width, canvas_height) ==
    LET radius == FMul(Min(canvas_width, canvas_height), Literal(333, 1000))
    IN << FMul(Den, radius), FMul(0, radius) >>

\* what the forces of an iteration add to a coordinate (result_disp *
\* current_disp): nothing, a quarter, or more than any canvas is wide
Moves == { - (2 ^ MantissaBits) * Den, - (Den \div 4), 0, Den \div 4,
           (2 ^ MantissaBits) * Den }

\* fruchterman_reingold::displacement for one node
displacement(pos, mv, width, height) ==
    << clamp(FMul(width, Literal(1, 2)), FAdd(pos[1], mv[1])),
       clamp(FMul(height, Literal(1, 2)), FAdd(pos[2], mv[2])) >>

\* foresighted_layout::rescale for one node
rescale(pos, src_width, src_height, dst_width, dst_height) ==
    LET w_coeff == FDiv(dst_width, src_width)
        h_coeff == FDiv(dst_height, src_height)
    IN << FMul(pos[1], w_coeff), FMul(pos[2], h_coeff) >>

\* foresighted_layout::move for one node
move(pos, src_x, src_y, dst_x, dst_y) ==
    LET x_diff == FSub(dst_x, src_x)
        y_diff == FSub(dst_y, src_y)
    IN << FAdd(pos[1], x_diff), FAdd(pos[2], y_diff) >>

(***************************************************************************)
(* SpecCanvas: operator() of the layout on a graph, seen from its node of  *)
(* index 0.                                                                *)
(***************************************************************************)
CanvasInit ==
    /\ c_pc = "start"
    /\ c_canvas = [width |-> Den, height |-> Den, center |-> << 0, 0 >>]
    /\ c_calc = << Den, Den >>
    /\ c_pos = << 0, 0 >>
    /\ c_iter = 0

\* operator() up to the initial placement of the static layout
CanvasBegin ==
    /\ c_pc = "start"
    /\ \E W \in CanvasSizes, H \in CanvasSizes, cx \in Centres, cy \in Centres :
         LET calculation_h == Den
             calculation_w == FDiv(FMul(calculation_h, W * Den), H * Den)
         IN /\ c_canvas' = [width |-> W * Den, height |-> H * Den,
                            center |-> << cx * Den, cy * Den >>]
            /\ c_calc' = << calculation_w, calculation_h >>
            /\ c_pos' = initial_placement(calculation_w, calculation_h)
    /\ c_pc' = "static"
    /\ UNCHANGED c_iter
    /\ UNCHANGED canvasOthers

\* an iteration of the static layout (layout_pass)
CanvasIteration ==
    /\ c_pc = "static"
    /\ c_iter < MaxCanvasIterations
    /\ \E mv \in Moves \X Moves :
          c_pos' = displacement(c_pos, mv, c_calc[1], c_calc[2])
    /\ c_iter' = c_iter + 1
    /\ UNCHANGED << c_pc, c_canvas, c_calc >>
    /\ UNCHANGED canvasOthers

\* an iteration of the tolerance pass on a copy of the keyframe, and the
\* copy is taken
CanvasTolerance ==
    /\ c_pc \in { "static", "tolerance" }
    /\ c_iter < MaxCanvasIterations
    /\ \E mv \in Moves \X Moves :
          c_pos' = displacement(c_pos, mv, c_calc[1], c_calc[2])
    /\ c_iter' = c_iter + 1
    /\ c_pc' = "tolerance"
    /\ UNCHANGED << c_canvas, c_calc >>
    /\ UNCHANGED canvasOthers

\* the end of operator(): rescale and move
CanvasFinish ==
    /\ c_pc \in { "static", "tolerance" }
    /\ c_pos' = move(rescale(c_pos, c_calc[1], c_calc[2],
                             c_canvas.width, c_canvas.height),
                     0, 0, c_canvas.center[1], c_canvas.center[2])
    /\ c_pc' = "done"
    /\ UNCHANGED << c_canvas, c_calc, c_iter >>
    /\ UNCHANGED canvasOthers

CanvasNext ==
    CanvasBegin \/ CanvasIteration \/ CanvasTolerance \/ CanvasFinish

(***************************************************************************)
(* Claims about the canvas (SpecCanvas).  A bound  c +- size/2  is         *)
(* compared exactly: 2 * (coord - c) against size.                         *)
(***************************************************************************)
InsideHalf(coord, c, size) ==
    /\ 2 * (coord - c) <= size
    /\ 2 * (coord - c) >= - size

\* every iteration of the static layout, and the initial placement, leave
\* the node inside the calculation canvas
IterationInsideCanvas ==
    c_pc \in { "static", "tolerance" } =>
        /\ InsideHalf(c_pos[1], 0, c_calc[1])
        /\ InsideHalf(c_pos[2], 0, c_calc[2])

\* the layout leaves the node inside the canvas
FinalInsideCanvas ==
    c_pc = "done" =>
        /\ InsideHalf(c_pos[1], c_canvas.center[1], c_canvas.width)
        /\ InsideHalf(c_pos[2], c_canvas.center[2], c_canvas.height)

\* the same for a canvas centred at (0, 0)
FinalInsideCanvasAtOrigin ==
    (c_pc = "done" /\ c_canvas.center = << 0, 0 >>) =>
        /\ InsideHalf(c_pos[1], 0, c_canvas.width)
        /\ InsideHalf(c_pos[2], 0, c_canvas.height)

\* the height of the node is inside a canvas centred at (0, 0)
FinalInsideCanvasHeight ==
    (c_pc = "done" /\ c_canvas.center = << 0, 0 >>) =>
        InsideHalf(c_pos[2], 0, c_canvas.height)

\* C17: after the layout, with or without the tolerance pass, the position
\* of every node is inside [cx - W/2, cx + W/2] x [cy - H/2, cy + H/2], and
\* every iteration of the static layout leaves the nodes inside
\* [-w/2, w/2] x [-h/2, h/2] of the calculation canvas
C17_InsideCanvas == IterationInsideCanvas /\ FinalInsideCanvas

(***************************************************************************)
(* interpolator.h: class interpolator.  A time is a count of quarters of a *)
(* second, in which the default durations are whole numbers.               *)
(***************************************************************************)
Phases == { "idle", "appear", "disappear", "morph", "simultaneous" }

\* the sequences of at most n phases
PhaseSeqs(n) == UNION { [1 .. k -> Phases] : k \in 0 .. n }

\* std::count(phases.begin(), phases.end(), p)
count(phases, p) == Cardinality({ i \in DOMAIN phases : phases[i] = p })

\* either_three taken for three_correct
three_correct_some(a, d, m) == a > 0 \/ d > 0 \/ m > 0

\* three_correct of set_phases
three_correct(a, d, m) == a = 1 /\ d = 1 /\ m = 1

\* interpolator::set_phases: the exception it throws, "none" if it returns
SetPhasesThrows(phases) ==
    LET a == count(phases, "appear")
        d == count(phases, "disappear")
        m == count(phases, "morph")
        s == count(phases, "simultaneous")
        either_three == a > 0 \/ d > 0 \/ m > 0
    IN IF s > 1 \/ a > 1 \/ d > 1 \/ m > 1 THEN "invalid_argument"
       ELSE IF (s = 0 /\ ~ three_correct(a, d, m)) \/ (s = 1 /\ either_three)
       THEN "invalid_argument"
       ELSE "none"

\* interpolator::set_phases: m_phases after the call
set_phases(old, phases) ==
    IF SetPhasesThrows(phases) = "none" THEN phases ELSE old

\* interpolator(phased) and interpolator(simultaneous)
phased == << "idle", "disappear", "morph", "appear" >>
simultaneous == << "idle", "simultaneous" >>

NoFrame == [nodes |-> << >>, edges |-> << >>]

InterpInit ==
    /\ i_pc = "new"
    /\ m_phases = phased
    /\ i_arg = << >>
    /\ i_thrown = "none"
    /\ i_states = << >>
    /\ i_time = 0
    /\ i_frame = NoFrame

(***************************************************************************)
(* SpecPhases: set_phases is called on an interpolator.                    *)
(***************************************************************************)
SetPhases ==
    /\ i_pc = "new"
    /\ \E phases \in PhaseSeqs(MaxPhases) :
          /\ i_arg' = phases
          /\ i_thrown' = SetPhasesThrows(phases)
          /\ m_phases' = set_phases(m_phases, phases)
    /\ i_pc' = "set"
    /\ UNCHANGED << i_states, i_time, i_frame >>
    /\ UNCHANGED interpOthers

PhasesNext == SetPhases

\* the phases of a phased transition: appear, disappear and morph once each
\* and no simultaneous
PhasedOnce(p) ==
    /\ count(p, "appear") = 1
    /\ count(p, "disappear") = 1
    /\ count(p, "morph") = 1
    /\ count(p, "simultaneous") = 0

\* the phases of a simultaneous transition: simultaneous once and none of
\* appear, disappear and morph
SimultaneousOnce(p) ==
    /\ count(p, "simultaneous") = 1
    /\ count(p, "appear") = 0
    /\ count(p, "disappear") = 0
    /\ count(p, "morph") = 0

\* C18: set_phases(p) succeeds iff appear, disappear and morph are in p
\* exactly once each and simultaneous is not, or simultaneous is in p
\* exactly once and none of the other three is (idle any number of times);
\* every other sequence, the empty one too, fails with invalid_argument and
\* leaves the phases as they were
C18_SetPhasesValidates ==
    i_pc = "set" =>
        /\ (i_thrown = "none") <=> (PhasedOnce(i_arg) \/ SimultaneousOnce(i_arg))
        /\ i_thrown \in { "none", "invalid_argument" }
        /\ i_thrown = "none" => m_phases = i_arg
        /\ i_thrown # "none" => m_phases = phased

\* set_phases has accepted a phased sequence with an idle phase
C18_Witness ==
    /\ i_pc = "set"
    /\ i_thrown = "none"
    /\ PhasedOnce(i_arg)
    /\ count(i_arg, "idle") >= 1

\* set_phases has accepted a simultaneous sequence
C18_WitnessSimultaneous ==
    /\ i_pc = "set"
    /\ i_thrown = "none"
    /\ SimultaneousOnce(i_arg)

\* set_phases has refused the empty sequence
C18_WitnessEmpty ==
    /\ i_pc = "set"
    /\ i_thrown = "invalid_argument"
    /\ i_arg = << >>

(***************************************************************************)
(* interpolator::operator().  A duration and a time are counts of quarters *)
(* of a second; animation.alpha and animation.interpolation are counts of  *)
(* twelfths, a coordinate is a multiple of 12 and the alpha of an element  *)
(* a count of 144ths, so that every quotient of the code is exact.         *)
(***************************************************************************)
m_idle_time == 2
m_appear_time == 1
m_disappear_time == 1
m_morph_time == 4
m_simultaneous_time == 6

\* interpolator::duration
duration(p) ==
    CASE p = "idle" -> m_idle_time
      [] p = "appear" -> m_appear_time
      [] p = "disappear" -> m_disappear_time
      [] p = "morph" -> m_morph_time
      [] p = "simultaneous" -> m_simultaneous_time

RECURSIVE TotalFrom(_, _)
TotalFrom(phases, total) ==
    IF phases = << >> THEN total
    ELSE TotalFrom(Tail(phases), total + duration(Head(phases)))

\* interpolator::transition_duration
transition_duration(phases) == TotalFrom(phases, 0)

\* size() - 1 of a size_t
SizeMinusOne(size) == (size - 1) % (2 ^ SizeBits)

\* interpolator::length
length(phases, states) ==
    SizeMinusOne(Len(states)) * transition_duration(phases)

\* std::floor and std::ceil of time / d for time >= 0 and d > 0
Floor(time, d) == time \div d
Ceil(time, d) == (time + d - 1) \div d

\* interpolator::get_current_phase from the phase of index i on
RECURSIVE CurrentPhaseFrom(_, _, _)
CurrentPhaseFrom(phases, time, i) ==
    IF i > Len(phases)
    THEN [thrown |-> "out_of_range", first |-> time, second |-> i]
    ELSE IF time < duration(phases[i])
    THEN [thrown |-> "none", first |-> time, second |-> i]
    ELSE CurrentPhaseFrom(phases, time - duration(phases[i]), i + 1)

get_current_phase(phases, time) == CurrentPhaseFrom(phases, time, 1)

\* struct frame_state
frame_state ==
    [interpolation |-> 0, alpha |-> 0, adding |-> FALSE, added |-> FALSE,
     deleting |-> FALSE, deleted |-> FALSE]

\* interpolator::perform_phase
perform_phase(p, time, animation) ==
    LET d == duration(p)
    IN CASE p = "idle" -> animation
         [] p = "appear" ->
              [animation EXCEPT !.adding = time < d,
                                !.alpha = (12 * time) \div d,
                                !.added = IF time >= d THEN TRUE ELSE @]
         [] p = "disappear" ->
              [animation EXCEPT !.deleting = time < d,
                                !.alpha = (12 * time) \div d,
                                !.deleted = IF time >= d THEN TRUE ELSE @]
         [] p = "morph" ->
              [animation EXCEPT !.interpolation = (12 * time) \div d]
         [] p = "simultaneous" ->
              [animation EXCEPT !.adding = time < d,
                                !.deleting = time < d,
                                !.alpha = (12 * time) \div d,
                                !.interpolation = (12 * time) \div d,
                                !.deleted = IF time >= d THEN TRUE ELSE @,
                                !.added = IF time >= d THEN TRUE ELSE @]

\* the phases before the current one, each for its whole duration
RECURSIVE PerformPrevious(_, _, _, _)
PerformPrevious(phases, i, second, animation) ==
    IF i >= second THEN animation
    ELSE PerformPrevious(phases, i + 1, second,
            perform_phase(phases[i], duration(phases[i]), animation))

\* interpolator::lerp
lerp(a, b, value) == a + (value * (b - a)) \div 12

\* calc_alpha without the test of animation.deleted
calc_alpha_keeps_old(element, animation) ==
    LET is_new == element.is_new
        is_old == element.is_old
        first == IF is_new /\ ~ animation.added THEN 0 ELSE element.alpha
        ape == is_new /\ animation.adding /\ ~ animation.added
        dis == is_old /\ animation.deleting
    IN IF ~ is_old /\ ~ is_new THEN element.alpha
       ELSE IF ape \/ dis
       THEN (IF ape THEN animation.alpha ELSE 12)
               * (12 - (IF dis THEN animation.alpha ELSE 0))
       ELSE first

\* interpolator::calc_alpha: the alpha of the element
calc_alpha(element, animation) ==
    LET is_new == element.is_new
        is_old == element.is_old
        first == IF is_new /\ ~ animation.added THEN 0 ELSE element.alpha
        second == IF is_old /\ animation.deleted THEN 0 ELSE first
        ape == is_new /\ animation.adding /\ ~ animation.added
        dis == is_old /\ animation.deleting
    IN IF ~ is_old /\ ~ is_new THEN element.alpha
       ELSE IF ape \/ dis
       THEN (IF ape THEN animation.alpha ELSE 12)
               * (12 - (IF dis THEN animation.alpha ELSE 0))
       ELSE second

\* the new elements of the next state pushed as they are
NewOfKeepsOld(vec) == SelectSeq(vec, LAMBDA x : x.is_new)

\* the elements of the next state that are new, as operator() pushes them
NewOf(vec) ==
    LET IsNew(x) == x.is_new
        new == SelectSeq(vec, IsNew)
    IN [i \in DOMAIN new |-> [new[i] EXCEPT !.is_old = FALSE]]

ClearNew(vec) == [i \in DOMAIN vec |-> [vec[i] EXCEPT !.is_new = FALSE]]

\* interpolator::operator(): the exception thrown and the frame returned
InterpolatorCall(phases, states, time) ==
    IF time < 0 THEN [thrown |-> "out_of_range", frame |-> NoFrame]
    ELSE IF time > length(phases, states)
    THEN [thrown |-> "out_of_range", frame |-> NoFrame]
    ELSE IF states = << >> THEN [thrown |-> "none", frame |-> NoFrame]
    ELSE
    LET td == transition_duration(phases)
        value == time - Floor(time, td) * td
        current == get_current_phase(phases, value)
        animation ==
            perform_phase(phases[current.second], current.first,
                PerformPrevious(phases, 1, current.second, frame_state))
        index_one == Min(Floor(time, td), Len(states) - 1)
        index_two == Min(Ceil(time, td), Len(states) - 1)
        \* indices of sequences count from 1
        current_state == states[index_one + 1]
        next_state == states[index_two + 1]
        nodes == EmplaceAll(ClearNew(current_state.nodes),
                            NewOf(next_state.nodes))
        new_edges == NewOf(next_state.edges)
        edges == EmplaceAll(ClearNew(current_state.edges), new_edges)
        dangling ==
            \E i \in DOMAIN new_edges :
                /\ new_edges[i].id \notin IdsOf(current_state.edges)
                /\ \/ new_edges[i].one \notin IdsOf(nodes)
                   \/ new_edges[i].two \notin IdsOf(nodes)
        Moved(nd) ==
            IF nd.id \in IdsOf(next_state.nodes)
            THEN LET next == next_state.nodes[IndexOf(next_state.nodes, nd.id)]
                 IN << lerp(nd.pos[1], next.pos[1], animation.interpolation),
                       lerp(nd.pos[2], next.pos[2], animation.interpolation) >>
            ELSE nd.pos
    IN IF current.thrown # "none"
       THEN [thrown |-> current.thrown, frame |-> NoFrame]
       ELSE IF dangling
       THEN [thrown |-> "invalid_graph", frame |-> NoFrame]
       ELSE [thrown |-> "none",
             frame |->
               [nodes |-> [i \in DOMAIN nodes |->
                             [nodes[i] EXCEPT
                                !.pos = Moved(nodes[i]),
                                !.alpha = calc_alpha(nodes[i], animation)]],
                edges |-> [i \in DOMAIN edges |->
                             [edges[i] EXCEPT
                                !.alpha = calc_alpha(edges[i], animation)]]]]

(***************************************************************************)
(* SpecInterp: an interpolator is constructed, a dynamic graph is built,   *)
(* and operator() is called once.                                          *)
(***************************************************************************)
\* interpolator(std::vector<phase>)
InterpCustom ==
    /\ i_pc = "new"
    /\ \E phases \in PhaseSeqs(MaxSchedule) :
          /\ i_arg' = phases
          /\ i_thrown' = SetPhasesThrows(phases)
          /\ m_phases' = set_phases(<< >>, phases)
          /\ i_pc' = IF SetPhasesThrows(phases) = "none"
                     THEN "ready" ELSE "set"
    /\ UNCHANGED << i_states, i_time, i_frame >>
    /\ UNCHANGED interpOthers

\* interpolator(phased), interpolator(simultaneous)
InterpDefault ==
    /\ i_pc = "new"
    /\ m_phases' \in { phased, simultaneous }
    /\ i_pc' = "ready"
    /\ UNCHANGED << i_arg, i_thrown, i_states, i_time, i_frame >>
    /\ UNCHANGED interpOthers

\* the position the layout has given a node in the keyframe of time t
InterpPos(t, id) == << 12 * ((t + id) % 2), 12 * id >>

\* the keyframe of time t (from 0) of n, as build() leaves it: is_new and
\* is_old from the neighbouring keyframes, the alpha of an edge 1, the alpha
\* of a node as node::alpha(value) has set it on states()
InterpKeyframe(t, n, present, joined, alpha) ==
    LET ns == Ascending(present[t + 1])
        es == IF joined[t + 1] THEN << 0 >> ELSE << >>
        WasNode(id) == t > 0 /\ id \in present[t]
        WillNode(id) == t < n - 1 /\ id \in present[t + 2]
        WasEdge == t > 0 /\ joined[t]
        WillEdge == t < n - 1 /\ joined[t + 2]
    IN [nodes |-> [i \in DOMAIN ns |->
                     [id |-> ns[i], pos |-> InterpPos(t, ns[i]),
                      is_new |-> t > 0 /\ ~ WasNode(ns[i]),
                      is_old |-> t < n - 1 /\ ~ WillNode(ns[i]),
                      alpha |-> alpha[t + 1][ns[i]]]],
        edges |-> [i \in DOMAIN es |->
                     [id |-> 0, one |-> 0, two |-> 1,
                      is_new |-> t > 0 /\ ~ WasEdge,
                      is_old |-> t < n - 1 /\ ~ WillEdge,
                      alpha |-> 144]]]

\* dgraph.build(), the layout and node::alpha(value) on the nodes of
\* states(): n keyframes; the edge is in a keyframe only with both nodes
InterpBuild ==
    /\ i_pc = "ready"
    /\ \E n \in InterpStateCounts :
         \E present \in [1 .. n -> SUBSET InterpNodeIds],
            joined \in [1 .. n -> BOOLEAN],
            alpha \in [1 .. n -> [InterpNodeIds -> InterpAlphas]] :
            /\ \A t \in 1 .. n : joined[t] => present[t] = InterpNodeIds
            /\ i_states' = [t \in 1 .. n |->
                              InterpKeyframe(t - 1, n, present, joined, alpha)]
    /\ i_pc' = "built"
    /\ UNCHANGED << m_phases, i_arg, i_thrown, i_time, i_frame >>
    /\ UNCHANGED interpOthers

\* the times operator() is called with: from a quarter below 0 to a quarter
\* above the end of the animation
InterpTimes ==
    -1 .. Max(Len(i_states) - 1, 0) * transition_duration(m_phases) + 1

\* interpolator::operator()
InterpFrame ==
    /\ i_pc = "built"
    /\ \E time \in InterpTimes :
          /\ i_time' = time
          /\ i_thrown' = InterpolatorCall(m_phases, i_states, time).thrown
          /\ i_frame' = InterpolatorCall(m_phases, i_states, time).frame
    /\ i_pc' = "framed"
    /\ UNCHANGED << m_phases, i_arg, i_states >>
    /\ UNCHANGED interpOthers

InterpNext == InterpCustom \/ InterpDefault \/ InterpBuild \/ InterpFrame

(***************************************************************************)
(* Claims about the interpolator (SpecInterp).                             *)
(***************************************************************************)
\* (state_count - 1) * transition_duration
StatedLength == (Len(i_states) - 1) * transition_duration(m_phases)

\* operator() fails with out_of_range exactly outside [0, length]
RangeChecked ==
    /\ (i_thrown = "out_of_range") <=> (i_time < 0 \/ i_time > StatedLength)
    /\ (i_thrown = "none") <=> (0 <= i_time /\ i_time <= StatedLength)

\* the same for a dynamic graph that has a keyframe
C19_OutOfRangeWithKeyframes ==
    (i_pc = "framed" /\ Len(i_states) >= 1) => RangeChecked

\* C19: for a dynamic graph with any number of keyframes operator() fails
\* with out_of_range iff t < 0 or t > length, where length =
\* (state_count - 1) * transition_duration, and returns a frame for every
\* t in [0, length]
C19_OutOfRangeIffOutside == i_pc = "framed" => RangeChecked

\* the frame has the nodes and the edges of the keyframe, in its order, with
\* its positions and its alphas
SameElements(frame, state) ==
    /\ Len(frame.nodes) = Len(state.nodes)
    /\ Len(frame.edges) = Len(state.edges)
    /\ \A i \in DOMAIN state.nodes :
          /\ frame.nodes[i].id = state.nodes[i].id
          /\ frame.nodes[i].pos = state.nodes[i].pos
          /\ frame.nodes[i].alpha = state.nodes[i].alpha
    /\ \A i \in DOMAIN state.edges :
          /\ frame.edges[i].id = state.edges[i].id
          /\ frame.edges[i].one = state.edges[i].one
          /\ frame.edges[i].two = state.edges[i].two
          /\ frame.edges[i].alpha = state.edges[i].alpha

\* operator() was called on a dynamic graph that has a keyframe
FramedSome == i_pc = "framed" /\ Len(i_states) >= 1

FrameAtZero ==
    (FramedSome /\ i_time = 0) =>
        /\ i_thrown = "none"
        /\ SameElements(i_frame, i_states[1])

FrameAtLength ==
    (FramedSome /\ i_time = StatedLength) =>
        /\ i_thrown = "none"
        /\ SameElements(i_frame, i_states[Len(i_states)])

\* no node::alpha(value) has changed the alpha of a node of the keyframes
DefaultAlphas ==
    \A t \in DOMAIN i_states :
        \A i \in DOMAIN i_states[t].nodes : i_states[t].nodes[i].alpha = 144

\* the frame at 0 is states[0] if the alphas are the default ones
C20_FrameAtZeroDefaultAlphas == DefaultAlphas => FrameAtZero

\* the frame at length is states[last]
C20_FrameAtLengthIsLast == FrameAtLength

\* C20: for every valid phase sequence and every dynamic graph with at least
\* one keyframe, the frame at t = 0 has the nodes, edges, positions and alphas
\* of states[0] and the frame at t = length has those of states[last]
C20_FrameAtEnds == FrameAtZero /\ FrameAtLength

(***************************************************************************)
(* The alphas of a frame (SpecInterp).                                     *)
(***************************************************************************)
\* the index in the schedule of its phase p
PhaseIndex(p) == CHOOSE i \in DOMAIN m_phases : m_phases[i] = p

\* the time of a transition at which the phase of index i starts
PhaseStart(i) == transition_duration(SubSeq(m_phases, 1, i - 1))

\* the time of the frame within its transition
LocalTime ==
    i_time - Floor(i_time, transition_duration(m_phases))
                * transition_duration(m_phases)

\* the phase in which new elements appear
AppearPhase ==
    IF \E i \in DOMAIN m_phases : m_phases[i] = "appear"
    THEN "appear" ELSE "simultaneous"

BeforeAppear == LocalTime < PhaseStart(PhaseIndex(AppearPhase))

HasDisappear == \E i \in DOMAIN m_phases : m_phases[i] = "disappear"

AfterDisappear ==
    /\ HasDisappear
    /\ LocalTime >= PhaseStart(PhaseIndex("disappear")) + m_disappear_time

\* the nodes and the edges of the frame
FrameElements ==
    { i_frame.nodes[i] : i \in DOMAIN i_frame.nodes }
        \cup { i_frame.edges[i] : i \in DOMAIN i_frame.edges }

\* operator() has returned a frame
Framed == i_pc = "framed" /\ i_thrown = "none"

\* C21: every node and edge of a frame has its alpha in [0, 1] (0 .. 144 in
\* 144ths) when the alphas of the keyframes are; an is_new element has alpha
\* 0 before the appear (or simultaneous) phase of the transition starts, an
\* is_old element has alpha 0 once the disappear phase has completed
C21_AlphaBounds ==
    Framed =>
        \A x \in FrameElements :
            /\ 0 <= x.alpha /\ x.alpha <= 144
            /\ (x.is_new /\ BeforeAppear) => x.alpha = 0
            /\ (x.is_old /\ AfterDisappear) => x.alpha = 0

\* a frame after the disappear phase and before the appear phase, with an
\* element that has gone and an element that is to come
C21_Witness ==
    /\ Framed
    /\ BeforeAppear
    /\ AfterDisappear
    /\ \E x \in FrameElements : x.is_old /\ x.alpha = 0
    /\ \E x \in FrameElements : x.is_new /\ x.alpha = 0

\* a frame with an element that is half way in or out
C21_WitnessFading ==
    /\ Framed
    /\ \E x \in FrameElements :
          (x.is_new \/ x.is_old) /\ 0 < x.alpha /\ x.alpha < 144

(***************************************************************************)
(* Claims about the id counters (Spec).                                    *)
(***************************************************************************)
\* the ids of a kind ("nmap", "emap") that occur in the keyframes
IdsOccurring(kind) == UNION { DOMAIN m_states[t][kind] : t \in DOMAIN m_states }

\* the counter of a kind is the largest id that occurs, plus one
CounterFromStates(counter, kind) ==
    IdsOccurring(kind) # {} => counter = SetMax(IdsOccurring(kind)) + 1

\* the counters are never below the ids that occur
C22_CountersCoverStates ==
    d_last = "build_states" =>
        /\ \A id \in IdsOccurring("nmap") : id < m_last_node_id
        /\ \A id \in IdsOccurring("emap") : id < m_last_edge_id

\* C22: after build(states) node_count() is the largest node id that occurs
\* in the given states plus one and edge_count() the largest edge id plus
\* one, whatever add_node and add_edge calls were made before
C22_CountersFromStates ==
    d_last = "build_states" =>
        /\ CounterFromStates(m_last_node_id, "nmap")
        /\ CounterFromStates(m_last_edge_id, "emap")

\* the frame at time t lies between the keyframes of these indices (from 0)
FrameIndexOne ==
    Min(Floor(i_time, transition_duration(m_phases)), Len(i_states) - 1)
FrameIndexTwo ==
    Min(Ceil(i_time, transition_duration(m_phases)), Len(i_states) - 1)

\* the elements of kind ("nodes", "edges") of the frame are those of
\* states[idx1] and the is_new ones of states[idx2]; the first have is_new
\* false, the others is_old false
FrameTakes(kind) ==
    LET one == i_states[FrameIndexOne + 1][kind]
        two == i_states[FrameIndexTwo + 1][kind]
        imported == { two[i].id : i \in { j \in DOMAIN two : two[j].is_new } }
        frame == i_frame[kind]
    IN /\ IdsOf(frame) = IdsOf(one) \cup imported
       /\ \A i \in DOMAIN frame, j \in DOMAIN frame :
             frame[i].id = frame[j].id => i = j
       /\ \A i \in DOMAIN frame :
             /\ frame[i].id \in IdsOf(one) => ~ frame[i].is_new
             /\ frame[i].id \notin IdsOf(one) => ~ frame[i].is_old
             /\ ~ (frame[i].is_new /\ frame[i].is_old)

\* operator() has returned the frame of a dynamic graph with keyframes
FramedBetween == Framed /\ Len(i_states) >= 1

\* C24: the frame for a time between the keyframes idx1 and idx2 holds the
\* nodes and edges of states[idx1] and the is_new elements of states[idx2]
\* and no other; an element of states[idx1] has is_new false in the frame,
\* an imported one is_old false, so none is both; every edge of the frame
\* has both ends in the frame
C24_FrameElements ==
    FramedBetween =>
        /\ FrameTakes("nodes")
        /\ FrameTakes("edges")
        /\ \A i \in DOMAIN i_frame.edges :
              /\ i_frame.edges[i].one \in IdsOf(i_frame.nodes)
              /\ i_frame.edges[i].two \in IdsOf(i_frame.nodes)

\* a frame between two keyframes that imports a node which lives in the
\* second keyframe only (is_new and is_old there), and the edge
C24_Witness ==
    /\ FramedBetween
    /\ FrameIndexOne < FrameIndexTwo
    /\ FrameIndexTwo + 1 < Len(i_states)
    /\ \E i \in DOMAIN i_states[FrameIndexTwo + 1].nodes :
          LET n == i_states[FrameIndexTwo + 1].nodes[i]
          IN n.is_new /\ n.is_old /\ n.id \in IdsOf(i_frame.nodes)
    /\ \E i \in DOMAIN i_frame.edges : i_frame.edges[i].is_new

(***************************************************************************)
(* Claims about build() called twice (Spec).                               *)
(***************************************************************************)
\* a step of build() that follows a build()
BuildAgain == d_last = "build" /\ d_last' = "build" /\ d_again'

\* C25: a build() that has failed with invalid_graph does not consume the
\* log, so that a build() right after it fails with invalid_graph again; a
\* build() that has succeeded clears the log, so that a build() right after
\* it gives no keyframes
C25_FailedBuildKeepsLog ==
    [][BuildAgain =>
          IF d_thrown # "none"
          THEN /\ d_thrown' = "invalid_graph"
               /\ d_log' = d_log
               /\ m_modifications' = m_modifications
          ELSE /\ d_thrown' = "none"
               /\ d_log' = << >>
               /\ m_states' = << >>]_vars

\* a build() right after a failed build() has failed
C25_Witness ==
    /\ d_last = "build"
    /\ d_again
    /\ d_thrown = "invalid_graph"
    /\ m_modifications # << >>

\* a build() right after a build() of a log has given no keyframes
C25_WitnessCleared ==
    /\ d_last = "build"
    /\ d_again
    /\ d_thrown = "none"
    /\ d_calls > 0
    /\ m_states = << >>

(***************************************************************************)
(* The optimization grid of the local repulsion (optimization_grid.h) and  *)
(* the enumeration of the pairs of nodes that are close together           *)
(* (fruchterman_reingold::for_each_pair_of_nodes).  Coordinates are        *)
(* integers and the canvas sizes are even, so that every quotient the code *)
(* computes in float is computed here exactly.                             *)
(***************************************************************************)
CeilDiv(a, b) == (a + b - 1) \div b

\* optimization_grid::reset: the grid of ceil(w / 2k) x ceil(h / 2k) empty
\* cells, stored row after row
reset(w, h, twok) ==
    [ m_2k      |-> twok,
      m_w       |-> w,
      m_h       |-> h,
      m_grid_w  |-> CeilDiv(w, twok),
      m_grid_h  |-> CeilDiv(h, twok),
      m_indices |-> [c \in 1 .. CeilDiv(w, twok) * CeilDiv(h, twok) |-> << >>] ]

\* the positions inside the canvas, the borders included: displacement()
\* clamps every coordinate into [-size / 2, size / 2]
CanvasPositions(w, h) ==
    [x : -(w \div 2) .. (w \div 2), y : -(h \div 2) .. (h \div 2)]

\* the cell add and for_each_around compute for a position
CellOf(g, pos) ==
    [x |-> (pos.x + g.m_w \div 2) \div g.m_2k,
     y |-> (pos.y + g.m_h \div 2) \div g.m_2k]

\* optimization_grid::get: the place of cell (x, y) in m_indices, counted
\* from 0; the code does not compare x with m_grid_w or the place with the
\* size of the array
get(g, x, y) == y * g.m_grid_w + x

InArray(g, c) == c >= 0 /\ c < Len(g.m_indices)

\* the outcomes of push_back on an element past the end of m_indices: the
\* process is stopped, or the write lands outside the cells
StrayWrites == {"crash", "stray"}

\* optimization_grid::add with a place inside the array
add(g, pos, index) ==
    LET c == get(g, CellOf(g, pos).x, CellOf(g, pos).y)
    IN  [g EXCEPT !.m_indices[c + 1] = Append(@, index)]

RECURSIVE ConcatAll(_)
ConcatAll(seqs) ==
    IF seqs = << >> THEN << >> ELSE Head(seqs) \o ConcatAll(Tail(seqs))

\* optimization_grid::for_each_around: the indices func is called with, in
\* the order of the calls (rows outside, columns inside)
for_each_around(g, pos) ==
    LET c   == CellOf(g, pos)
        ylo == Max(c.y - 1, 0)
        yhi == Min(c.y + 1, g.m_grid_h - 1)
        xlo == Max(c.x - 1, 0)
        xhi == Min(c.x + 1, g.m_grid_w - 1)
        nx  == xhi - xlo + 1
        ny  == yhi - ylo + 1
    IN  IF nx <= 0 \/ ny <= 0
        THEN << >>
        ELSE ConcatAll([n \in 1 .. nx * ny |->
                 g.m_indices[get(g, xlo + ((n - 1) % nx),
                                    ylo + ((n - 1) \div nx)) + 1]])

GridInit ==
    /\ o_pc = "new"
    /\ m_grid = reset(0, 0, 1)
    /\ o_n = 0
    /\ o_i = 0
    /\ o_pos = << >>
    /\ o_cells = << >>
    /\ o_pairs = << >>

\* for_each_pair_of_nodes, local repulsion: the grid is set up for a graph
\* of n nodes
GridSetup ==
    /\ o_pc = "new"
    /\ \E w \in GridWidths, h \in GridHeights, twok \in TwoKs,
          n \in 1 .. MaxGridNodes :
          /\ m_grid' = reset(w, h, twok)
          /\ o_n' = n
    /\ o_pc' = "adding"
    /\ UNCHANGED << o_i, o_pos, o_cells, o_pairs >>
    /\ UNCHANGED gridOthers

\* for_each_pair_of_nodes, first loop: m_grid.add(graph.nodes()[i].pos(), i)
GridAdd ==
    /\ o_pc = "adding"
    /\ \E pos \in CanvasPositions(m_grid.m_w, m_grid.m_h) :
          LET cell == CellOf(m_grid, pos)
              last == o_i + 1 = o_n
          IN  /\ o_pos' = Append(o_pos, pos)
              /\ o_cells' = Append(o_cells, cell)
              /\ IF InArray(m_grid, get(m_grid, cell.x, cell.y))
                 THEN /\ m_grid' = add(m_grid, pos, o_i)
                      /\ o_pc' = IF last THEN "pairing" ELSE "adding"
                 ELSE /\ m_grid' = m_grid
                      /\ \E out \in StrayWrites :
                            o_pc' = IF out = "crash" THEN "crashed"
                                    ELSE IF last THEN "pairing" ELSE "adding"
              /\ o_i' = IF last THEN 0 ELSE o_i + 1
    /\ UNCHANGED << o_n, o_pairs >>
    /\ UNCHANGED gridOthers

\* for_each_pair_of_nodes, second loop: for_each_around the position of node
\* i, func(i, j) for every j < i found there
GridAround ==
    /\ o_pc = "pairing"
    /\ LET found == for_each_around(m_grid, o_pos[o_i + 1])
           lower == SelectSeq(found, LAMBDA j : j < o_i)
       IN  o_pairs' = o_pairs \o [n \in 1 .. Len(lower) |-> << o_i, lower[n] >>]
    /\ o_i' = o_i + 1
    /\ o_pc' = IF o_i + 1 = o_n THEN "done" ELSE "pairing"
    /\ UNCHANGED << m_grid, o_n, o_pos, o_cells >>
    /\ UNCHANGED gridOthers

GridNext == GridSetup \/ GridAdd \/ GridAround

(***************************************************************************)
(* C27: for every grid (w, h, k) and every position inside the canvas, the *)
(* right and the top border included, add maps the position to a cell      *)
(* (x, y) with 0 <= x < ceil(w / 2k) and 0 <= y < ceil(h / 2k): it never   *)
(* indexes outside the cell array or into a cell of another row.           *)
(***************************************************************************)
CellInside(g, cell) ==
    /\ 0 <= cell.x /\ cell.x < g.m_grid_w
    /\ 0 <= cell.y /\ cell.y < g.m_grid_h

C27_AddInsideGrid ==
    \A n \in 1 .. Len(o_cells) : CellInside(m_grid, o_cells[n])

\* the weaker statement that add at least stays inside the array of cells
C27_AddInsideArray ==
    \A n \in 1 .. Len(o_cells) :
        InArray(m_grid, get(m_grid, o_cells[n].x, o_cells[n].y))

\* what the code does guarantee: positions left of the right border and
\* below the top border are mapped to a cell of the grid
OffBorder(g, pos) == 2 * pos.x < g.m_w /\ 2 * pos.y < g.m_h

C27_OffBorderInsideGrid ==
    \A n \in 1 .. Len(o_cells) :
        OffBorder(m_grid, o_pos[n]) => CellInside(m_grid, o_cells[n])

(***************************************************************************)
(* C26: in local repulsion mode, for node positions inside the canvas, the *)
(* pair enumeration passes to the force callback exactly once every        *)
(* unordered pair of distinct nodes lying in the same or adjacent grid     *)
(* cells, and never a pair twice; consequently the pairs that receive a    *)
(* repulsive force are the pairs brute force finds with distance < 2k.     *)
(***************************************************************************)
GridNodes == 0 .. o_n - 1

PairsPassed == {o_pairs[n] : n \in 1 .. Len(o_pairs)}

NoPairTwice == Cardinality(PairsPassed) = Len(o_pairs)

Adjacent(c1, c2) ==
    /\ c1.x - c2.x \in -1 .. 1
    /\ c1.y - c2.y \in -1 .. 1

ClosePairs ==
    {p \in GridNodes \X GridNodes :
        /\ p[2] < p[1]
        /\ Adjacent(CellOf(m_grid, o_pos[p[1] + 1]),
                    CellOf(m_grid, o_pos[p[2] + 1]))}

\* repulsive_forces: a pair is displaced when dst = 0 or dst < 2k
Repelled(p) ==
    LET a == o_pos[p[1] + 1]
        b == o_pos[p[2] + 1]
    IN  (a.x - b.x) * (a.x - b.x) + (a.y - b.y) * (a.y - b.y)
            < m_grid.m_2k * m_grid.m_2k

BruteForce == {p \in GridNodes \X GridNodes : p[2] < p[1] /\ Repelled(p)}

C26_PairEnumeration ==
    o_pc = "done" =>
        /\ PairsPassed = ClosePairs
        /\ NoPairTwice
        /\ {p \in PairsPassed : Repelled(p)} = BruteForce

\* the part of the statement the code keeps: no pair is passed twice, and
\* every pair passed is a pair of distinct nodes
C26_NeverTwice ==
    /\ NoPairTwice
    /\ \A p \in PairsPassed : p[2] < p[1]

\* with every node off the right and the top border the enumeration is the
\* one stated
C26_OffBorderEnumeration ==
    (o_pc = "done" /\ \A n \in 1 .. Len(o_pos) : OffBorder(m_grid, o_pos[n]))
        => /\ PairsPassed = ClosePairs
           /\ NoPairTwice
           /\ {p \in PairsPassed : Repelled(p)} = BruteForce

(***************************************************************************)
(* C28: a push_edge that fails with invalid_graph because an end is absent *)
(* leaves the graph unchanged: the node and edge sequences, the id to      *)
(* index maps and the adjacency index, the entry of the end that is        *)
(* present included, are the same as before the call.                      *)
(***************************************************************************)
PushEdgeFailed == g_last' = "push_edge" /\ g_thrown' = "invalid_graph"

C28_FailedPushEdgeKeepsGraph ==
    [][PushEdgeFailed => m_graph' = m_graph]_vars

\* what the code keeps: the failed call changes nothing but the adjacency
\* index
C28_FailedPushEdgeKeepsElements ==
    [][PushEdgeFailed =>
          /\ m_graph'.nodes = m_graph.nodes
          /\ m_graph'.nmap = m_graph.nmap
          /\ m_graph'.edges = m_graph.edges
          /\ m_graph'.emap = m_graph.emap]_vars

(***************************************************************************)
(* C29: whenever the tolerance pass in relative distance mode compares a   *)
(* refined keyframe with a neighbouring keyframe, the two share at least   *)
(* one node, so that the divisor of distance() is not zero; for every      *)
(* built dynamic graph, empty keyframes and neighbouring keyframes with    *)
(* disjoint node sets included.                                            *)
(***************************************************************************)
C29_SharedNodes ==
    \A n \in 1 .. Len(l_divisors) : l_divisors[n].count > 0

\* the divisor is zero only for neighbours without a common node
C29_ZeroOnlyIfDisjoint ==
    \A n \in 1 .. Len(l_divisors) :
        LET one == l_states[l_divisors[n].s + 1]
            two == l_states[l_divisors[n].other + 1]
        IN  l_divisors[n].count = 0
                <=> { one.nodes[i].id : i \in DOMAIN one.nodes }
                      \cap { two.nodes[i].id : i \in DOMAIN two.nodes } = {}

(***************************************************************************)
(* SpecToleranceFair: the passes under fair scheduling.  Every thread of   *)
(* the pool is a thread of the operating system, which runs a thread that  *)
(* can take a step; a thread blocked in a wait() is woken by the           *)
(* notify_all of the last arriver, and the predicate it then tests stays   *)
(* true.                                                                   *)
(***************************************************************************)
ThreadStep(t) ==
    \/ /\ t \in ParThreads
       /\ \/ ParReconcile(t)
          \/ ParIterate(t)
          \/ ParBarEnter(t)
          \/ ParBarWake(t)
          \/ (t = 0 /\ ParScan)
          \/ ParPoolEnter(t)
          \/ (t = 0 /\ ParReturn)
    \/ (t \in DOMAIN par_pc /\ ParPoolWake(t))

TolFairness ==
    \A t \in 0 .. (MaxThreads - 1) : WF_vars(ThreadStep(t))

(***************************************************************************)
(* C30: for every thread count N >= 1 and every keyframe count K >= 1,     *)
(* N > K (threads that own no index) included, the parallel tolerance pass *)
(* terminates: every thread passes both barriers of each of the rounds,    *)
(* all threads run the same number of rounds, and perform() returns; no    *)
(* thread blocks forever on the inner barrier or on the barrier of the     *)
(* pool.                                                                   *)
(***************************************************************************)
AllReturned ==
    /\ t_phase = "done"
    /\ \A t \in DOMAIN par_pc :
          /\ par_pc[t] = "returned"
          /\ par_r[t] = t_in.iterations
    /\ par_bar.m_gen = 2 * t_in.iterations
    /\ par_m_bar.m_gen = 1

C30_ParallelToleranceTerminates == (t_phase = "par") ~> AllReturned

\* the pass has returned with more threads than keyframes
C30_Witness ==
    /\ AllReturned
    /\ t_in.threads > Len(par_states)

\* a thread without an index waits at the inner barrier for the others
C30_WitnessIdleThreadWaits ==
    /\ t_phase = "par"
    /\ \E t \in DOMAIN par_pc :
          /\ Indices(t, t_in.threads, Len(par_states)) = {}
          /\ par_pc[t] = "bar1_wait"

(***************************************************************************)
(* The specifications.                                                     *)
(***************************************************************************)
Init ==
    /\ GraphInit /\ DynInit /\ BarrierInit /\ PoolInit /\ TolInit
    /\ LayoutInit /\ CanvasInit /\ InterpInit /\ GridInit

SpecBarrier == Init /\ [][BarrierNext]_vars

SpecPool == Init /\ [][PoolNext]_vars

SpecPoolFair == Init /\ [][PoolNext]_vars /\ PoolFairness

SpecPoolFailure == Init /\ [][PoolFailureNext]_vars

SpecTolerance == Init /\ [][TolNext]_vars

SpecToleranceFair == Init /\ [][TolNext]_vars /\ TolFairness

SpecLayout == Init /\ [][LayoutNext]_vars

SpecCanvas == Init /\ [][CanvasNext]_vars

SpecPhases == Init /\ [][PhasesNext]_vars

SpecInterp == Init /\ [][InterpNext]_vars

SpecGrid == Init /\ [][GridNext]_vars

SpecGraph == Init /\ [][GraphNext]_vars

Spec == Init /\ [][DynNext]_vars

=============================================================================
